---- MODULE Spec2Model ----
(***************************************************************************)
(* Model of the SQL object comparator (scripts/sql_comparator.py) and of   *)
(* the table column extractor it is fed by (scripts/sql_parser.py).        *)
(*                                                                         *)
(* Representation choices                                                  *)
(*  - A text (a statement, a definition) is a sequence of lexical items:   *)
(*    words, punctuation and white-space items (" ", "\n").  The model's   *)
(*    alphabet is the item where Python's is the character.                *)
(*  - Optional[str] is a sequence of length 0 (None) or 1 (the string).    *)
(*  - A percentage is the exact fraction <<numerator, denominator>> in     *)
(*    lowest terms (Pct), so 100 is <<100, 1>> and 0 is <<0, 1>>.          *)
(*  - The iteration order of a Python set depends on the interpreter's     *)
(*    string hash seed; it is fixed for one process and unknown otherwise. *)
(*    hash_seed is chosen at Init and SetOrder enumerates by it.           *)
(***************************************************************************)
EXTENDS Integers, Sequences, FiniteSets, TLC

VARIABLES
    source_objects,   \* reference side handed to compare_files
    docker_objects,   \* candidate side handed to compare_files
    results,          \* SQLComparator.results (self.results)
    first_run,        \* list returned by the first compare_files call on the inputs
    second_run,       \* list returned by the second call on the same inputs
    swapped_run,      \* list returned by compare_files(docker, source)
    pc,               \* position of the driver: "build", "once", "twice", "swapped"
    hash_seed,        \* string hash seed of the interpreter process
    parsed,           \* statements sqlparse.parse returned for the file being parsed
    position,         \* how many of them _parse_statement has been called on
    objects,          \* SQLParser.objects (self.objects)
    current_line,     \* SQLParser.current_line (self.current_line)
    parser_pc,        \* "idle", "reading", "parsing", "returned" or "raised"
    file_pairs,       \* the file pairs of generate_all_reports, as found on disk
    pair_index,       \* how many pairs the loop of generate_all_reports has done
    pair_results,     \* per pair done, the results handed to its individual report
    all_results,      \* all_results of generate_all_reports
    batch_pc,         \* "pairs", "done" or "raised"
    heap,             \* the list objects the parser has made, and which is self.objects
    calls             \* the parse_file calls made on one parser and what they returned

comparator_vars == <<source_objects, docker_objects, results, first_run, second_run,
                     swapped_run, pc>>

parser_vars == <<parsed, position, objects, current_line, parser_pc>>

batch_vars == <<file_pairs, pair_index, pair_results, all_results, batch_pc>>

reuse_vars == <<heap, calls>>

vars == <<comparator_vars, hash_seed, parser_vars, batch_vars, reuse_vars>>

(***************************************************************************)
(* Bounds                                                                  *)
(***************************************************************************)
\* most objects handed to one compare_files call, both sides together
MaxObjects == 3

\* most statements of one parsed file
MaxStatements == 2

\* most file pairs of one generate_all_reports run
MaxPairs == 2

\* most .sql files listed in a source directory
MaxSourceFiles == 2

\* most parse_file calls made on one parser
MaxCalls == 3

(***************************************************************************)
(* Generic helpers                                                         *)
(***************************************************************************)
None == <<>>
Some(s) == <<s>>
IsNone(o) == o = <<>>

\* str(x) of an Optional[str] inside an f-string
Str(o) == IF IsNone(o) THEN "None" ELSE o[1]

Range(s) == {s[i] : i \in DOMAIN s}

Front(s) == SubSeq(s, 1, Len(s) - 1)

Reverse(s) == [i \in 1..Len(s) |-> s[Len(s) + 1 - i]]

\* the sequences of ss one after the other (halving keeps the nesting shallow)
RECURSIVE Flatten(_)
Flatten(ss) ==
    IF ss = <<>> THEN <<>>
    ELSE IF Len(ss) = 1 THEN ss[1]
    ELSE LET h == Len(ss) \div 2
         IN  Flatten(SubSeq(ss, 1, h)) \o Flatten(SubSeq(ss, h + 1, Len(ss)))

\* the elements of a set of integers in increasing order
SortSet(S) ==
    [k \in 1..Cardinality(S) |->
        CHOOSE x \in S : Cardinality({y \in S : y < x}) = k - 1]

RECURSIVE Gcd(_, _)
Gcd(a, b) == IF b = 0 THEN a ELSE Gcd(b, a % b)

\* (num / den) * 100 as an exact fraction in lowest terms
Pct(num, den) ==
    LET n == num * 100
        g == Gcd(n, den)
    IN  IF n = 0 THEN <<0, 1>> ELSE <<n \div g, den \div g>>

PctLess(p, q) == p[1] * q[2] < q[1] * p[2]

RECURSIVE CanonicalOrder(_)
CanonicalOrder(S) ==
    IF S = {} THEN <<>>
    ELSE LET x == CHOOSE y \in S : TRUE
         IN  <<x>> \o CanonicalOrder(S \ {x})

\* order in which Python iterates the set S under the process' hash seed
SetOrder(S, seed) ==
    IF seed = 0 THEN CanonicalOrder(S) ELSE Reverse(CanonicalOrder(S))

\* sep.join(items)
RECURSIVE Join(_, _)
Join(sep, items) ==
    IF items = <<>> THEN ""
    ELSE IF Len(items) = 1 THEN items[1]
    ELSE LET h == Len(items) \div 2
         IN  Join(sep, SubSeq(items, 1, h)) \o sep
             \o Join(sep, SubSeq(items, h + 1, Len(items)))

(***************************************************************************)
(* Text helpers (str.split, str.splitlines, ' '.join)                      *)
(***************************************************************************)
WhiteSpace == {" ", "\n", "\t"}

\* concatenation of the items of a text into one Python string
Concat(text) == Join("", text)

\* text.split(sep) for separators of one item: the pieces between the
\* separator items, empty pieces included
SplitAt(text, seps) ==
    LET Pieces(at) ==
            [k \in 1..(Len(at) + 1) |->
                SubSeq(text, IF k = 1 THEN 1 ELSE at[k - 1] + 1,
                             IF k = Len(at) + 1 THEN Len(text) ELSE at[k] - 1)]
    IN  Pieces(SortSet({i \in DOMAIN text : text[i] \in seps}))

NonEmpty(piece) == piece # <<>>

\* text.split(): the maximal runs of non-white-space items, each run a text
SplitWords(text) == SelectSeq(SplitAt(text, WhiteSpace), NonEmpty)

\* ' '.join(words)
JoinWords(words) ==
    Flatten([k \in 1..Len(words) |-> IF k = 1 THEN words[k] ELSE <<" ">> \o words[k]])

\* ' '.join(text.split()) : white-space runs collapse to one " ", ends stripped
NormalizeWhitespace(text) == JoinWords(SplitWords(text))

\* text.strip()
Strip(text) ==
    LET inked == {i \in DOMAIN text : text[i] \notin WhiteSpace}
    IN  IF inked = {} THEN <<>>
        ELSE SubSeq(text, CHOOSE i \in inked : \A j \in inked : i <= j,
                          CHOOSE i \in inked : \A j \in inked : j <= i)

\* text.splitlines(): the lines as Python strings; no empty last line
SplitLines(text) ==
    LET Lines(pieces) == IF pieces[Len(pieces)] = <<>> THEN Front(pieces) ELSE pieces
        Strings(lines) == [k \in 1..Len(lines) |-> Concat(lines[k])]
    IN  Strings(Lines(SplitAt(text, {"\n"})))

(***************************************************************************)
(* difflib.SequenceMatcher(None, a, b) without junk (autojunk needs 200    *)
(* elements) and difflib.unified_diff(..., lineterm='')                    *)
(***************************************************************************)
\* context lines of unified_diff (its default n)
DiffContext == 3

Max(S) == CHOOSE x \in S : \A y \in S : y <= x
Min(S) == CHOOSE x \in S : \A y \in S : x <= y

\* length of the common run of a[i..ahi) and b[j..bhi), positions 0-based
RunLen(a, b, i, j, ahi, bhi) ==
    LET room == IF ahi - i < bhi - j THEN ahi - i ELSE bhi - j
    IN  Max({k \in 0..room : \A t \in 1..k : a[i + t] = b[j + t]})

\* <<i, j, k>>: the longest matching block in a[alo..ahi), b[blo..bhi); of the
\* longest ones the one starting earliest in a, and of those earliest in b
find_longest_match(a, b, alo, ahi, blo, bhi) ==
    LET Earliest(longest) ==
            LET AtRow(bi) == <<bi, Min({c[2] : c \in {d \in longest : d[1] = bi}})>>
            IN  AtRow(Min({c[1] : c \in longest}))
        Pick(cand, best) ==
            IF best = 0 THEN <<alo, blo, 0>>
            ELSE Earliest({d \in cand : d[3] = best}) \o <<best>>
        Longest(cand) == Pick(cand, IF cand = {} THEN 0 ELSE Max({c[3] : c \in cand}))
    IN  Longest({<<i, j, RunLen(a, b, i, j, ahi, bhi)>> :
                    i \in alo..(ahi - 1), j \in blo..(bhi - 1)})

RECURSIVE MatchingBlocks(_, _, _, _, _, _)
MatchingBlocks(a, b, alo, ahi, blo, bhi) ==
    LET Around(m) ==
            IF m[3] = 0 THEN <<>>
            ELSE MatchingBlocks(a, b, alo, m[1], blo, m[2])
                 \o <<m>>
                 \o MatchingBlocks(a, b, m[1] + m[3], ahi, m[2] + m[3], bhi)
    IN  Around(find_longest_match(a, b, alo, ahi, blo, bhi))

get_matching_blocks(a, b) ==
    MatchingBlocks(a, b, 0, Len(a), 0, Len(b)) \o <<<<Len(a), Len(b), 0>>>>

RECURSIVE SumSizes(_)
SumSizes(blocks) ==
    IF blocks = <<>> THEN 0 ELSE Head(blocks)[3] + SumSizes(Tail(blocks))

\* SequenceMatcher.ratio() * 100
RatioPct(a, b) ==
    LET length == Len(a) + Len(b)
    IN  IF length = 0 THEN Pct(1, 1)
        ELSE Pct(2 * SumSizes(get_matching_blocks(a, b)), length)

\* SequenceMatcher.get_opcodes(): <<tag, i1, i2, j1, j2>>
RECURSIVE Opcodes(_, _, _)
Opcodes(blocks, i, j) ==
    IF blocks = <<>> THEN <<>>
    ELSE LET ai == Head(blocks)[1]
             bj == Head(blocks)[2]
             size == Head(blocks)[3]
             tag == IF i < ai /\ j < bj THEN "replace"
                    ELSE IF i < ai THEN "delete"
                    ELSE IF j < bj THEN "insert"
                    ELSE ""
         IN  (IF tag # "" THEN <<<<tag, i, ai, j, bj>>>> ELSE <<>>)
             \o (IF size > 0 THEN <<<<"equal", ai, ai + size, bj, bj + size>>>> ELSE <<>>)
             \o Opcodes(Tail(blocks), ai + size, bj + size)

\* the single group of get_grouped_opcodes(n) for sequences in which no run
\* of equal lines is longer than 2n: leading and trailing equal runs are cut
\* to n lines; a group of one 'equal' opcode is no group
GroupedOpcodes(a, b) ==
    LET codes == Opcodes(get_matching_blocks(a, b), 0, 0)
        n == DiffContext
        cutFirst(cs) ==
            IF cs # <<>> /\ cs[1][1] = "equal"
            THEN LET c == cs[1]
                 IN  <<<<"equal", IF c[2] > c[3] - n THEN c[2] ELSE c[3] - n, c[3],
                                  IF c[4] > c[5] - n THEN c[4] ELSE c[5] - n, c[5]>>>>
                     \o Tail(cs)
            ELSE cs
        cutLast(cs) ==
            IF cs # <<>> /\ cs[Len(cs)][1] = "equal"
            THEN LET c == cs[Len(cs)]
                 IN  Front(cs)
                     \o <<<<"equal", c[2], IF c[3] < c[2] + n THEN c[3] ELSE c[2] + n,
                                     c[4], IF c[5] < c[4] + n THEN c[5] ELSE c[4] + n>>>>
            ELSE cs
        Group(group) ==
            IF group = <<>> \/ (Len(group) = 1 /\ group[1][1] = "equal")
            THEN <<>> ELSE group
    IN  Group(cutLast(cutFirst(codes)))

\* difflib._format_range_unified
FormatRange(start, stop) ==
    LET length == stop - start
    IN  IF length = 1 THEN ToString(start + 1)
        ELSE IF length = 0 THEN ToString(start) \o "," \o ToString(length)
        ELSE ToString(start + 1) \o "," \o ToString(length)

Prefixed(prefix, lines, lo, hi) ==
    [k \in 1..(hi - lo) |-> prefix \o lines[lo + k]]

RECURSIVE HunkLines(_, _, _)
HunkLines(group, a, b) ==
    IF group = <<>> THEN <<>>
    ELSE LET c == Head(group)
         IN  (IF c[1] = "equal" THEN Prefixed(" ", a, c[2], c[3])
              ELSE (IF c[1] \in {"replace", "delete"}
                    THEN Prefixed("-", a, c[2], c[3]) ELSE <<>>)
                   \o (IF c[1] \in {"replace", "insert"}
                       THEN Prefixed("+", b, c[4], c[5]) ELSE <<>>))
             \o HunkLines(Tail(group), a, b)

unified_diff(a, b) ==
    LET Hunk(group) ==
            IF group = <<>> THEN <<>>
            ELSE <<"--- source", "+++ docker",
                   "@@ -" \o FormatRange(group[1][2], group[Len(group)][3])
                          \o " +" \o FormatRange(group[1][4], group[Len(group)][5])
                          \o " @@">>
                 \o HunkLines(group, a, b)
    IN  Hunk(GroupedOpcodes(a, b))

(***************************************************************************)
(* SQLParser: the table extractor                                          *)
(***************************************************************************)
\* str.upper() on the items of the model's vocabulary: the items with lower-case
\* letters are listed, every other item is its own upper case
Upper(w) ==
    CASE w = "primary" -> "PRIMARY"
      [] w = "key" -> "KEY"
      [] w = "foreign" -> "FOREIGN"
      [] w = "unique" -> "UNIQUE"
      [] w = "check" -> "CHECK"
      [] w = "create" -> "CREATE"
      [] w = "or" -> "OR"
      [] w = "replace" -> "REPLACE"
      [] w = "view" -> "VIEW"
      [] w = "as" -> "AS"
      [] w = "select" -> "SELECT"
      [] w = "from" -> "FROM"
      [] w = "where" -> "WHERE"
      [] w = "index" -> "INDEX"
      [] w = "on" -> "ON"
      [] w = "id" -> "ID"
      [] w = "name" -> "NAME"
      [] w = "amount" -> "AMOUNT"
      [] w = "total" -> "TOTAL"
      [] w = "app" -> "APP"
      [] w = "_date" -> "_DATE"
      [] w = "a" -> "A"
      [] w = "b" -> "B"
      [] w = "c" -> "C"
      [] w = "f" -> "F"
      [] w = "g" -> "G"
      [] w = "i" -> "I"
      [] w = "m" -> "M"
      [] w = "p" -> "P"
      [] w = "r" -> "R"
      [] w = "t" -> "T"
      [] w = "v" -> "V"
      [] w = "w" -> "W"
      [] w = "x" -> "X"
      [] w = "with" -> "WITH"
      [] w = "left" -> "LEFT"
      [] w = "join" -> "JOIN"
      [] OTHER -> w

\* text.startswith(prefix), item by item
StartsWith(text, prefix) ==
    Len(text) >= Len(prefix) /\ SubSeq(text, 1, Len(prefix)) = prefix

\* the constraint clauses _extract_table_columns skips
ConstraintPrefixes ==
    {<<"PRIMARY", " ", "KEY">>, <<"FOREIGN", " ", "KEY">>, <<"UNIQUE">>, <<"CHECK">>}

\* re.search(r'\(\s*(.*?)\s*\)', statement, re.DOTALL).group(1): the text from
\* the first "(" to the first ")" after it, stripped; <<>> (no match) when
\* there is no such pair
ParenBody(statement) ==
    LET opens == {i \in DOMAIN statement :
                     statement[i] = "("
                     /\ \E j \in DOMAIN statement : j > i /\ statement[j] = ")"}
    IN  IF opens = {} THEN None
        ELSE LET i == Min(opens)
                 j == Min({k \in DOMAIN statement : k > i /\ statement[k] = ")"})
             IN  Some(Strip(SubSeq(statement, i + 1, j - 1)))

\* variant: constraint clauses are not skipped
_extract_table_columns_all(table_statement) ==
    LET columns_match == ParenBody(table_statement)
        ColumnOf(piece) ==
            LET col_def == Strip(piece)
            IN  IF col_def # <<>>
                THEN <<Concat(SplitWords(col_def)[1])>>
                ELSE <<>>
        Pieces == IF IsNone(columns_match) THEN <<>>
                  ELSE SplitAt(columns_match[1], {","})
    IN  Flatten([k \in 1..Len(Pieces) |-> ColumnOf(Pieces[k])])

_extract_table_columns(table_statement) ==
    LET columns_match == ParenBody(table_statement)
        ColumnOf(piece) ==
            LET col_def == Strip(piece)
            IN  IF col_def # <<>>
                   /\ ~\E pre \in ConstraintPrefixes :
                          StartsWith([k \in 1..Len(col_def) |-> Upper(col_def[k])], pre)
                THEN <<Concat(SplitWords(col_def)[1])>>
                ELSE <<>>
        Pieces == IF IsNone(columns_match) THEN <<>>
                  ELSE SplitAt(columns_match[1], {","})
    IN  Flatten([k \in 1..Len(Pieces) |-> ColumnOf(Pieces[k])])

\* the SQLObject fields the comparator reads (start_line, end_line and grants
\* are not read by it)
_create_basic_object(name, obj_type, statement, comments) ==
    [name |-> name,
     type |-> obj_type,
     definition |-> statement,
     comments |-> comments,
     columns |-> <<>>,
     joins |-> <<>>,
     where_clause |-> None,
     group_by |-> None,
     order_by |-> None,
     ctes |-> <<>>,
     parameters |-> None,
     return_type |-> None]

_parse_table(statement, name, comments) ==
    [_create_basic_object(name, "TABLE", statement, comments)
        EXCEPT !.columns = _extract_table_columns(statement)]

(***************************************************************************)
(* The objects the comparator is run on                                    *)
(***************************************************************************)
\* words separated by single spaces
Spaced(words) == JoinWords([k \in 1..Len(words) |-> Some(words[k])])

\* CREATE TABLE t (id INT, name TEXT, PRIMARY KEY (id))
TableFullStmt ==
    Spaced(<<"CREATE", "TABLE", "t">>) \o <<" ", "(">> \o Spaced(<<"id", "INT">>)
    \o <<",", " ">> \o Spaced(<<"name", "TEXT">>)
    \o <<",", " ">> \o Spaced(<<"PRIMARY", "KEY">>) \o <<" ", "(", "id", ")", ")">>

\* CREATE TABLE t (id INT)
TableIdStmt ==
    Spaced(<<"CREATE", "TABLE", "t">>) \o <<" ", "(">> \o Spaced(<<"id", "INT">>) \o <<")">>

\* CREATE TABLE t (name TEXT, id INT, unique (id))
TableSwappedStmt ==
    Spaced(<<"CREATE", "TABLE", "t">>) \o <<" ", "(">> \o Spaced(<<"name", "TEXT">>)
    \o <<",", " ">> \o Spaced(<<"id", "INT">>)
    \o <<",", " ">> \o <<"unique", " ", "(", "id", ")", ")">>

\* the first statement laid out over several lines
TableLinesStmt ==
    Spaced(<<"CREATE", "TABLE", "t">>) \o <<" ", "(", "\n", " ", " ">>
    \o Spaced(<<"id", "INT">>) \o <<",", "\n", " ", " ">> \o Spaced(<<"name", "TEXT">>)
    \o <<",", "\n", " ", " ">> \o Spaced(<<"PRIMARY", "KEY">>)
    \o <<" ", "(", "id", ")", "\n", ")">>

TableStatements == {TableFullStmt, TableIdStmt, TableSwappedStmt, TableLinesStmt}

Tables == {_parse_table(stmt, "t", <<>>) : stmt \in TableStatements}

\* an object of another name, present in every family
GrantW ==
    _create_basic_object("w", "GRANT",
        Spaced(<<"GRANT", "SELECT", "ON", "w", "TO", "app">>), <<>>)

ViewHead(name) == Spaced(<<"CREATE", "OR", "REPLACE", "VIEW", name, "AS">>)

View(name, text, columns, where_clause) ==
    [_create_basic_object(name, "VIEW", ViewHead(name) \o <<" ">> \o text, <<>>)
        EXCEPT !.columns = columns, !.where_clause = where_clause]

\* ... SELECT id, name FROM t WHERE x=1
ViewBase ==
    View("v", <<"SELECT", " ", "id", ",", " ", "name", " ">>
              \o Spaced(<<"FROM", "t", "WHERE", "x=1">>),
         <<"id", "name">>, Some("x=1"))

\* ... SELECT name, id FROM t WHERE x=1
ViewSwapped ==
    View("v", <<"SELECT", " ", "name", ",", " ", "id", " ">>
              \o Spaced(<<"FROM", "t", "WHERE", "x=1">>),
         <<"name", "id">>, Some("x=1"))

\* ... SELECT a.id, name, b.id FROM t WHERE x=1 : two columns of the same name
ViewDup ==
    View("v", <<"SELECT", " ", "a.id", ",", " ", "name", ",", " ", "b.id", " ">>
              \o Spaced(<<"FROM", "t", "WHERE", "x=1">>),
         <<"id", "name", "id">>, Some("x=1"))

\* ... SELECT name, a.id, b.id FROM t WHERE x=1
ViewDupSwapped ==
    View("v", <<"SELECT", " ", "name", ",", " ", "a.id", ",", " ", "b.id", " ">>
              \o Spaced(<<"FROM", "t", "WHERE", "x=1">>),
         <<"name", "id", "id">>, Some("x=1"))

\* ... SELECT id FROM t WHERE x=1
ViewId ==
    View("v", Spaced(<<"SELECT", "id", "FROM", "t", "WHERE", "x=1">>),
         <<"id">>, Some("x=1"))

\* ... SELECT name FROM t WHERE x=1
ViewName ==
    View("v", Spaced(<<"SELECT", "name", "FROM", "t", "WHERE", "x=1">>),
         <<"name">>, Some("x=1"))

Views == {ViewBase, ViewSwapped, ViewDup, ViewDupSwapped, ViewId, ViewName}

Cte(name, definition) == [name |-> name, definition |-> definition]

JoinOf(type, table, condition) ==
    [type |-> type, table |-> table, condition |-> condition]

\* a view with a CTE, a JOIN, three clauses and a comment
Report(text, ctes, joins, where_clause, group_by, order_by, comments) ==
    [_create_basic_object("r", "MATERIALIZED_VIEW",
        Spaced(<<"CREATE", "MATERIALIZED", "VIEW", "r", "AS">>) \o <<" ">> \o text,
        comments)
        EXCEPT !.columns = <<"id">>, !.ctes = ctes, !.joins = joins,
               !.where_clause = where_clause, !.group_by = group_by,
               !.order_by = order_by]

ReportBase ==
    Report(Spaced(<<"WITH", "c", "AS", "(SELECT", "1)", "SELECT", "id", "FROM", "a",
                    "LEFT", "JOIN", "b", "ON", "a.id=b.id", "WHERE", "x=1",
                    "ORDER", "BY", "id">>) \o <<"\n", "--", " ", "report">>,
           <<Cte("c", "(SELECT 1)")>>,
           <<JoinOf("LEFT JOIN", "b", Some("a.id=b.id"))>>,
           Some("x=1"), None, Some("id"), <<"-- report">>)

\* the JOIN condition written the other way round
ReportCond ==
    Report(Spaced(<<"WITH", "c", "AS", "(SELECT", "1)", "SELECT", "id", "FROM", "a",
                    "LEFT", "JOIN", "b", "ON", "b.id=a.id", "WHERE", "x=1",
                    "ORDER", "BY", "id">>) \o <<"\n", "--", " ", "report">>,
           <<Cte("c", "(SELECT 1)")>>,
           <<JoinOf("LEFT JOIN", "b", Some("b.id=a.id"))>>,
           Some("x=1"), None, Some("id"), <<"-- report">>)

\* another CTE body, no WHERE, a GROUP BY, another ORDER BY, no comment
ReportClauses ==
    Report(Spaced(<<"WITH", "c", "AS", "(SELECT", "2)", "SELECT", "id", "FROM", "a",
                    "LEFT", "JOIN", "b", "ON", "a.id=b.id", "GROUP", "BY", "id",
                    "ORDER", "BY", "id", "DESC">>),
           <<Cte("c", "(SELECT 2)")>>,
           <<JoinOf("LEFT JOIN", "b", Some("a.id=b.id"))>>,
           None, Some("id"), Some("id DESC"), <<>>)

\* the same table joined twice, a second CTE, no JOIN condition on the INNER JOIN
ReportJoins ==
    Report(Spaced(<<"WITH", "c", "AS", "(SELECT", "1)", ",", "d", "AS", "(SELECT", "1)",
                    "SELECT", "id", "FROM", "a",
                    "LEFT", "JOIN", "b", "ON", "a.id=b.id",
                    "LEFT", "JOIN", "b", "ON", "a.k=b.k", "WHERE", "x=1">>),
           <<Cte("c", "(SELECT 1)"), Cte("d", "(SELECT 1)")>>,
           <<JoinOf("LEFT JOIN", "b", Some("a.id=b.id")),
             JoinOf("LEFT JOIN", "b", Some("a.k=b.k"))>>,
           Some("x=1"), None, None, <<>>)

\* two CTEs of one name
ReportCtes ==
    Report(Spaced(<<"WITH", "c", "AS", "(SELECT", "1)", ",", "c", "AS", "(SELECT", "2)",
                    "SELECT", "id", "FROM", "a",
                    "LEFT", "JOIN", "b", "ON", "a.id=b.id", "WHERE", "x=1">>),
           <<Cte("c", "(SELECT 1)"), Cte("c", "(SELECT 2)")>>,
           <<JoinOf("LEFT JOIN", "b", Some("a.id=b.id"))>>,
           Some("x=1"), None, None, <<>>)

Reports == {ReportBase, ReportCond, ReportClauses, ReportJoins, ReportCtes}

Function(text, parameters, return_type) ==
    [_create_basic_object("f", "FUNCTION",
        Spaced(<<"CREATE", "OR", "REPLACE", "FUNCTION">>) \o <<" ">> \o text, <<>>)
        EXCEPT !.parameters = Some(parameters), !.return_type = return_type]

\* ... FUNCTION f(p INT) RETURNS NUMERIC(10,2)
FunctionBase ==
    Function(<<"f", "(", "p", " ", "INT", ")", " ", "RETURNS", " ", "NUMERIC(10,2)">>,
             <<"p INT">>, Some("NUMERIC(10,2)"))

\* ... FUNCTION f(p INT) RETURNS NUMERIC
FunctionReturns ==
    Function(<<"f", "(", "p", " ", "INT", ")", " ", "RETURNS", " ", "NUMERIC">>,
             <<"p INT">>, Some("NUMERIC"))

\* ... FUNCTION f() RETURNS NUMERIC(10,2)
FunctionNoParams ==
    Function(<<"f", "(", ")", " ", "RETURNS", " ", "NUMERIC(10,2)">>,
             <<>>, Some("NUMERIC(10,2)"))

\* an index that has the function's name
IndexF ==
    _create_basic_object("f", "INDEX",
        Spaced(<<"CREATE", "INDEX", "f", "ON", "t">>) \o <<"(", "id", ")">>, <<>>)

Functions == {FunctionBase, FunctionReturns, FunctionNoParams, IndexF}

\* the objects of one run come from one family; GrantW is in each
Families ==
    {Tables \cup {GrantW}, Views \cup {GrantW}, Reports \cup {GrantW},
     Functions \cup {GrantW}}

ObjectPool == UNION Families

SameFamily(objs) == \E F \in Families : Range(objs) \subseteq F

HashSeeds == {0, 1}

(***************************************************************************)
(* Text similarity and line diff of the definitions of ObjectPool, worked  *)
(* out once per pair of texts                                              *)
(***************************************************************************)
PoolDefinitions == {obj.definition : obj \in ObjectPool}

\* <<a, b, SequenceMatcher(None, a', b').ratio() * 100>>, a' and b' the
\* normalized texts
RatioOfDefinitions ==
    {<<a, b, RatioPct(NormalizeWhitespace(a), NormalizeWhitespace(b))>> :
        a \in PoolDefinitions, b \in PoolDefinitions}

\* <<a, b, list(difflib.unified_diff(a.splitlines(), b.splitlines(), ...))>>
DiffOfDefinitions ==
    {<<a, b, unified_diff(SplitLines(a), SplitLines(b))>> :
        a \in PoolDefinitions, b \in PoolDefinitions}

\* the entry of a pair of texts in such a table
Entry(table, a, b) == (CHOOSE e \in table : e[1] = a /\ e[2] = b)[3]

(***************************************************************************)
(* SQLComparator: the comparison passes                                    *)
(***************************************************************************)
_compare_columns(source_cols, docker_cols, seed) ==
    LET source_set == Range(source_cols)
        docker_set == Range(docker_cols)
        missing_cols == SetOrder(source_set \ docker_set, seed)
        extra_cols == SetOrder(docker_set \ source_set, seed)
        MissingNote(col) == "Missing column: " \o col
        ExtraNote(col) == "Extra column: " \o col
    IN  [differences |->
            (IF missing_cols # <<>>
             THEN <<"Missing columns: " \o Join(", ", missing_cols)>> ELSE <<>>)
            \o (IF extra_cols # <<>>
                THEN <<"Extra columns: " \o Join(", ", extra_cols)>> ELSE <<>>)
            \o (IF source_cols # docker_cols /\ missing_cols = <<>> /\ extra_cols = <<>>
                THEN <<"Column order differs">> ELSE <<>>),
         missing |-> [k \in 1..Len(missing_cols) |-> MissingNote(missing_cols[k])],
         extra |-> [k \in 1..Len(extra_cols) |-> ExtraNote(extra_cols[k])]]

\* next(cte for cte in ctes if cte['name'] == cte_name)
FirstCte(ctes, cte_name) ==
    ctes[Min({i \in DOMAIN ctes : ctes[i].name = cte_name})]

_compare_ctes(source_ctes, docker_ctes, seed) ==
    LET source_names == {c.name : c \in Range(source_ctes)}
        docker_names == {c.name : c \in Range(docker_ctes)}
        missing_ctes == SetOrder(source_names \ docker_names, seed)
        extra_ctes == SetOrder(docker_names \ source_names, seed)
        common_ctes == SetOrder(source_names \cap docker_names, seed)
        MissingNote(cte) == "Missing CTE: " \o cte
        ExtraNote(cte) == "Extra CTE: " \o cte
        DefNote(cte_name) ==
            IF FirstCte(source_ctes, cte_name).definition
                   # FirstCte(docker_ctes, cte_name).definition
            THEN <<"CTE '" \o cte_name \o "' definition differs">> ELSE <<>>
    IN  [differences |->
            (IF missing_ctes # <<>>
             THEN <<"Missing CTEs: " \o Join(", ", missing_ctes)>> ELSE <<>>)
            \o (IF extra_ctes # <<>>
                THEN <<"Extra CTEs: " \o Join(", ", extra_ctes)>> ELSE <<>>)
            \o Flatten([k \in 1..Len(common_ctes) |-> DefNote(common_ctes[k])]),
         missing |-> [k \in 1..Len(missing_ctes) |-> MissingNote(missing_ctes[k])],
         extra |-> [k \in 1..Len(extra_ctes) |-> ExtraNote(extra_ctes[k])]]

\* f"{join['type']} {join['table']} ON {join['condition']}"
JoinStr(join) == join.type \o " " \o join.table \o " ON " \o Str(join.condition)

\* f"{join['type']} {join['table']}"
JoinKey(join) == join.type \o " " \o join.table

_compare_joins(source_joins, docker_joins, seed) ==
    LET source_set == {JoinStr(j) : j \in Range(source_joins)}
        docker_set == {JoinStr(j) : j \in Range(docker_joins)}
        missing_joins == SetOrder(source_set \ docker_set, seed)
        extra_joins == SetOrder(docker_set \ source_set, seed)
        MissingNote(j) == "Missing JOIN: " \o j
        ExtraNote(j) == "Extra JOIN: " \o j
    IN  [differences |->
            (IF missing_joins # <<>>
             THEN <<"Missing JOINs: " \o ToString(Len(missing_joins))>> ELSE <<>>)
            \o (IF extra_joins # <<>>
                THEN <<"Extra JOINs: " \o ToString(Len(extra_joins))>> ELSE <<>>),
         missing |-> [k \in 1..Len(missing_joins) |-> MissingNote(missing_joins[k])],
         extra |-> [k \in 1..Len(extra_joins) |-> ExtraNote(extra_joins[k])]]

\* variant: a clause absent on one side is reported like a clause that differs
_compare_clauses_OneMessage(source_clause, docker_clause, clause_type) ==
    [differences |->
        IF source_clause # docker_clause
        THEN <<clause_type \o " clause differs">>
        ELSE <<>>,
     missing |-> <<>>,
     extra |-> <<>>]

_compare_clauses(source_clause, docker_clause, clause_type) ==
    [differences |->
        IF source_clause # docker_clause
        THEN IF IsNone(source_clause)
             THEN <<"Missing " \o clause_type \o " clause in Docker">>
             ELSE IF IsNone(docker_clause)
             THEN <<"Missing " \o clause_type \o " clause in source">>
             ELSE <<clause_type \o " clause differs">>
        ELSE <<>>,
     missing |-> <<>>,
     extra |-> <<>>]

_compare_comments(source_comments, docker_comments) ==
    LET source_set == Range(source_comments)
        docker_set == Range(docker_comments)
        missing_comments == source_set \ docker_set
        extra_comments == docker_set \ source_set
    IN  [differences |->
            (IF missing_comments # {}
             THEN <<"Missing comments: " \o ToString(Cardinality(missing_comments))>>
             ELSE <<>>)
            \o (IF extra_comments # {}
                THEN <<"Extra comments: " \o ToString(Cardinality(extra_comments))>>
                ELSE <<>>),
         missing |-> <<>>,
         extra |-> <<>>]

\* variant: the return types are not compared
_compare_functions_ParametersOnly(source_func, docker_func) ==
    [differences |->
        IF source_func.parameters # docker_func.parameters
        THEN <<"Function parameters differ">> ELSE <<>>,
     missing |-> <<>>,
     extra |-> <<>>]

_compare_functions(source_func, docker_func) ==
    [differences |->
        (IF source_func.parameters # docker_func.parameters
         THEN <<"Function parameters differ">> ELSE <<>>)
        \o (IF source_func.return_type # docker_func.return_type
            THEN <<"Return type differs: source=" \o Str(source_func.return_type)
                     \o ", docker=" \o Str(docker_func.return_type)>>
            ELSE <<>>),
     missing |-> <<>>,
     extra |-> <<>>]

_generate_line_diff(source_def, docker_def) ==
    Entry(DiffOfDefinitions, source_def, docker_def)

\* truth value of an Optional[str]: neither None nor ''
Truthy(clause) == ~IsNone(clause) /\ clause[1] # ""

\* variant: every candidate column entry found in the reference counts as a
\* match, over the distinct reference columns
_calculate_completeness_Entries(source_obj, docker_obj) ==
    LET ClauseTotal(s) == IF Truthy(s) THEN 1 ELSE 0
        ClauseMatch(s, d) == IF Truthy(s) /\ s = d THEN 1 ELSE 0
        total_components ==
            Cardinality(Range(source_obj.columns))
            + Len(source_obj.ctes) + Len(source_obj.joins)
            + ClauseTotal(source_obj.where_clause)
            + ClauseTotal(source_obj.group_by)
            + ClauseTotal(source_obj.order_by)
        matching_components ==
            Cardinality({k \in DOMAIN docker_obj.columns :
                            docker_obj.columns[k] \in Range(source_obj.columns)})
            + Cardinality({c.name : c \in Range(source_obj.ctes)}
                          \cap {c.name : c \in Range(docker_obj.ctes)})
            + Cardinality({JoinKey(j) : j \in Range(source_obj.joins)}
                          \cap {JoinKey(j) : j \in Range(docker_obj.joins)})
            + ClauseMatch(source_obj.where_clause, docker_obj.where_clause)
            + ClauseMatch(source_obj.group_by, docker_obj.group_by)
            + ClauseMatch(source_obj.order_by, docker_obj.order_by)
    IN  IF total_components = 0 THEN Pct(1, 1)
        ELSE Pct(matching_components, total_components)

_calculate_completeness(source_obj, docker_obj) ==
    LET source_cte_names == {c.name : c \in Range(source_obj.ctes)}
        docker_cte_names == {c.name : c \in Range(docker_obj.ctes)}
        source_join_strs == {JoinKey(j) : j \in Range(source_obj.joins)}
        docker_join_strs == {JoinKey(j) : j \in Range(docker_obj.joins)}
        ClauseTotal(s) == IF Truthy(s) THEN 1 ELSE 0
        ClauseMatch(s, d) == IF Truthy(s) /\ s = d THEN 1 ELSE 0
        total_components ==
            Len(source_obj.columns) + Len(source_obj.ctes) + Len(source_obj.joins)
            + ClauseTotal(source_obj.where_clause)
            + ClauseTotal(source_obj.group_by)
            + ClauseTotal(source_obj.order_by)
        matching_components ==
            Cardinality(Range(source_obj.columns) \cap Range(docker_obj.columns))
            + Cardinality(source_cte_names \cap docker_cte_names)
            + Cardinality(source_join_strs \cap docker_join_strs)
            + ClauseMatch(source_obj.where_clause, docker_obj.where_clause)
            + ClauseMatch(source_obj.group_by, docker_obj.group_by)
            + ClauseMatch(source_obj.order_by, docker_obj.order_by)
    IN  IF total_components = 0 THEN Pct(1, 1)
        ELSE Pct(matching_components, total_components)

_calculate_accuracy(source_obj, docker_obj) ==
    Entry(RatioOfDefinitions, source_obj.definition, docker_obj.definition)

\* variant: the test on the differences list the wrong way round
DetermineStatus_Inverted(differences) ==
    IF differences # <<>> THEN "MATCH" ELSE "DIFFERENT"

\* status of a compared pair, from its differences list
DetermineStatus(differences) ==
    IF differences = <<>> THEN "MATCH" ELSE "DIFFERENT"

\* variant: the entries of the comment pass come first
_compare_objects_CommentsFirst(source_obj, docker_obj, seed) ==
    LET type_diff ==
            IF source_obj.type # docker_obj.type
            THEN <<"Type mismatch: source=" \o source_obj.type
                     \o ", docker=" \o docker_obj.type>>
            ELSE <<>>
        column_comparison == _compare_columns(source_obj.columns, docker_obj.columns, seed)
        cte_comparison == _compare_ctes(source_obj.ctes, docker_obj.ctes, seed)
        join_comparison == _compare_joins(source_obj.joins, docker_obj.joins, seed)
        where_comparison ==
            _compare_clauses(source_obj.where_clause, docker_obj.where_clause, "WHERE")
        group_by_comparison ==
            _compare_clauses(source_obj.group_by, docker_obj.group_by, "GROUP BY")
        order_by_comparison ==
            _compare_clauses(source_obj.order_by, docker_obj.order_by, "ORDER BY")
        comment_comparison == _compare_comments(source_obj.comments, docker_obj.comments)
        func_comparison ==
            IF source_obj.type = "FUNCTION"
            THEN _compare_functions(source_obj, docker_obj)
            ELSE [differences |-> <<>>, missing |-> <<>>, extra |-> <<>>]
        differences ==
            comment_comparison.differences
            \o type_diff \o column_comparison.differences \o cte_comparison.differences
            \o join_comparison.differences \o where_comparison.differences
            \o group_by_comparison.differences \o order_by_comparison.differences
            \o func_comparison.differences
    IN  [object_name |-> source_obj.name,
         object_type |-> source_obj.type,
         status |-> DetermineStatus(differences),
         completeness_percentage |-> _calculate_completeness(source_obj, docker_obj),
         accuracy_percentage |-> _calculate_accuracy(source_obj, docker_obj),
         differences |-> differences,
         missing_components |->
            column_comparison.missing \o cte_comparison.missing
            \o join_comparison.missing \o func_comparison.missing,
         extra_components |->
            column_comparison.extra \o cte_comparison.extra
            \o join_comparison.extra \o func_comparison.extra,
         line_by_line_diff |->
            _generate_line_diff(source_obj.definition, docker_obj.definition)]

\* variant: two objects of different types get no type entry
_compare_objects_NoTypeEntry(source_obj, docker_obj, seed) ==
    LET type_diff == <<>>
        column_comparison == _compare_columns(source_obj.columns, docker_obj.columns, seed)
        cte_comparison == _compare_ctes(source_obj.ctes, docker_obj.ctes, seed)
        join_comparison == _compare_joins(source_obj.joins, docker_obj.joins, seed)
        where_comparison ==
            _compare_clauses(source_obj.where_clause, docker_obj.where_clause, "WHERE")
        group_by_comparison ==
            _compare_clauses(source_obj.group_by, docker_obj.group_by, "GROUP BY")
        order_by_comparison ==
            _compare_clauses(source_obj.order_by, docker_obj.order_by, "ORDER BY")
        comment_comparison == _compare_comments(source_obj.comments, docker_obj.comments)
        func_comparison ==
            IF source_obj.type = "FUNCTION"
            THEN _compare_functions(source_obj, docker_obj)
            ELSE [differences |-> <<>>, missing |-> <<>>, extra |-> <<>>]
        differences ==
            type_diff \o column_comparison.differences \o cte_comparison.differences
            \o join_comparison.differences \o where_comparison.differences
            \o group_by_comparison.differences \o order_by_comparison.differences
            \o comment_comparison.differences \o func_comparison.differences
    IN  [object_name |-> source_obj.name,
         object_type |-> source_obj.type,
         status |-> DetermineStatus(differences),
         completeness_percentage |-> _calculate_completeness(source_obj, docker_obj),
         accuracy_percentage |-> _calculate_accuracy(source_obj, docker_obj),
         differences |-> differences,
         missing_components |->
            column_comparison.missing \o cte_comparison.missing
            \o join_comparison.missing \o func_comparison.missing,
         extra_components |->
            column_comparison.extra \o cte_comparison.extra
            \o join_comparison.extra \o func_comparison.extra,
         line_by_line_diff |->
            _generate_line_diff(source_obj.definition, docker_obj.definition)]

_compare_objects(source_obj, docker_obj, seed) ==
    LET type_diff ==
            IF source_obj.type # docker_obj.type
            THEN <<"Type mismatch: source=" \o source_obj.type
                     \o ", docker=" \o docker_obj.type>>
            ELSE <<>>
        column_comparison == _compare_columns(source_obj.columns, docker_obj.columns, seed)
        cte_comparison == _compare_ctes(source_obj.ctes, docker_obj.ctes, seed)
        join_comparison == _compare_joins(source_obj.joins, docker_obj.joins, seed)
        where_comparison ==
            _compare_clauses(source_obj.where_clause, docker_obj.where_clause, "WHERE")
        group_by_comparison ==
            _compare_clauses(source_obj.group_by, docker_obj.group_by, "GROUP BY")
        order_by_comparison ==
            _compare_clauses(source_obj.order_by, docker_obj.order_by, "ORDER BY")
        comment_comparison == _compare_comments(source_obj.comments, docker_obj.comments)
        func_comparison ==
            IF source_obj.type = "FUNCTION"
            THEN _compare_functions(source_obj, docker_obj)
            ELSE [differences |-> <<>>, missing |-> <<>>, extra |-> <<>>]
        differences ==
            type_diff \o column_comparison.differences \o cte_comparison.differences
            \o join_comparison.differences \o where_comparison.differences
            \o group_by_comparison.differences \o order_by_comparison.differences
            \o comment_comparison.differences \o func_comparison.differences
    IN  [object_name |-> source_obj.name,
         object_type |-> source_obj.type,
         status |-> DetermineStatus(differences),
         completeness_percentage |-> _calculate_completeness(source_obj, docker_obj),
         accuracy_percentage |-> _calculate_accuracy(source_obj, docker_obj),
         differences |-> differences,
         missing_components |->
            column_comparison.missing \o cte_comparison.missing
            \o join_comparison.missing \o func_comparison.missing,
         extra_components |->
            column_comparison.extra \o cte_comparison.extra
            \o join_comparison.extra \o func_comparison.extra,
         line_by_line_diff |->
            _generate_line_diff(source_obj.definition, docker_obj.definition)]

(***************************************************************************)
(* SQLComparator.compare_files                                             *)
(***************************************************************************)
\* variant: the first object of a name is kept
RECURSIVE Lookup_FirstWins(_)
Lookup_FirstWins(objs) ==
    IF objs = <<>> THEN [n \in {} |-> <<>>]
    ELSE LET d == Lookup_FirstWins(Front(objs))
             obj == objs[Len(objs)]
         IN  [n \in (DOMAIN d) \cup {obj.name} |->
                IF n \in DOMAIN d THEN d[n] ELSE obj]

\* {obj.name: obj for obj in objs}: a later object replaces an earlier one
RECURSIVE Lookup(_)
Lookup(objs) ==
    IF objs = <<>> THEN [n \in {} |-> <<>>]
    ELSE LET d == Lookup(Front(objs))
             obj == objs[Len(objs)]
         IN  [n \in (DOMAIN d) \cup {obj.name} |-> IF n = obj.name THEN obj ELSE d[n]]

\* variant: the kind of a missing object is not recorded
MissingResult_Untyped(name, source_obj) ==
    [object_name |-> name,
     object_type |-> "UNKNOWN",
     status |-> "MISSING",
     completeness_percentage |-> <<0, 1>>,
     accuracy_percentage |-> <<0, 1>>,
     differences |-> <<"Object '" \o name \o "' exists in source but missing in Docker">>,
     missing_components |-> <<>>,
     extra_components |-> <<>>,
     line_by_line_diff |-> <<>>]

MissingResult(name, source_obj) ==
    [object_name |-> name,
     object_type |-> source_obj.type,
     status |-> "MISSING",
     completeness_percentage |-> <<0, 1>>,
     accuracy_percentage |-> <<0, 1>>,
     differences |-> <<"Object '" \o name \o "' exists in source but missing in Docker">>,
     missing_components |-> <<>>,
     extra_components |-> <<>>,
     line_by_line_diff |-> <<>>]

\* variant: an unexpected object scored as fully complete
ExtraResult_Complete(name, docker_obj) ==
    [object_name |-> name,
     object_type |-> docker_obj.type,
     status |-> "EXTRA",
     completeness_percentage |-> <<100, 1>>,
     accuracy_percentage |-> <<0, 1>>,
     differences |-> <<"Object '" \o name \o "' exists in Docker but not in source">>,
     missing_components |-> <<>>,
     extra_components |-> <<>>,
     line_by_line_diff |-> <<>>]

ExtraResult(name, docker_obj) ==
    [object_name |-> name,
     object_type |-> docker_obj.type,
     status |-> "EXTRA",
     completeness_percentage |-> <<0, 1>>,
     accuracy_percentage |-> <<0, 1>>,
     differences |-> <<"Object '" \o name \o "' exists in Docker but not in source">>,
     missing_components |-> <<>>,
     extra_components |-> <<>>,
     line_by_line_diff |-> <<>>]

\* variant: the one-sided branches the wrong way round
ResultFor_Swapped(name, source_lookup, docker_lookup, seed) ==
    IF name \in DOMAIN source_lookup /\ name \in DOMAIN docker_lookup
    THEN _compare_objects(source_lookup[name], docker_lookup[name], seed)
    ELSE IF name \in DOMAIN docker_lookup
    THEN MissingResult(name, docker_lookup[name])
    ELSE ExtraResult(name, source_lookup[name])

\* the body of the loop over all_names
ResultFor(name, source_lookup, docker_lookup, seed) ==
    IF name \in DOMAIN source_lookup /\ name \in DOMAIN docker_lookup
    THEN _compare_objects(source_lookup[name], docker_lookup[name], seed)
    ELSE IF name \in DOMAIN source_lookup
    THEN MissingResult(name, source_lookup[name])
    ELSE ExtraResult(name, docker_lookup[name])

\* variant: only the names of the reference side
AllNames_SourceOnly(source_lookup, docker_lookup) == DOMAIN source_lookup

\* set(source_lookup.keys()) | set(docker_lookup.keys())
AllNames(source_lookup, docker_lookup) ==
    (DOMAIN source_lookup) \cup (DOMAIN docker_lookup)

\* variant: self.results is not emptied
InitialResults_Kept(previous) == previous

\* self.results at the start of compare_files, given what the last call left
InitialResults(previous) == <<>>

\* the value of self.results when compare_files returns
compare_files(previous, source_objs, docker_objs, seed) ==
    LET source_lookup == Lookup(source_objs)
        docker_lookup == Lookup(docker_objs)
        all_names == SetOrder(AllNames(source_lookup, docker_lookup), seed)
        Result(name) == ResultFor(name, source_lookup, docker_lookup, seed)
    IN  InitialResults(previous) \o [k \in 1..Len(all_names) |-> Result(all_names[k])]

(***************************************************************************)
(* SQLParser: classification and naming of a statement                     *)
(*                                                                         *)
(* The regular expressions of the parser carry no word boundary, so a      *)
(* keyword is found inside a longer word as well.  In the texts of the     *)
(* parser's model a keyword that occurs inside a word is an item of its    *)
(* own (from_date is <<"from", "_date">>): a keyword of a pattern matches  *)
(* an item, and \w+ matches a run of word items.                           *)
(***************************************************************************)
UpperText(text) == [k \in 1..Len(text) |-> Upper(text[k])]

\* the items that are not made of \w characters
NonWordItems == WhiteSpace \cup {",", "(", ")", ".", "*", ";", "=", "--", "/*", "*/"}

IsWord(item) == item \notin NonWordItems

\* index of the first item at or after i that is no white space
SkipSpace(text, i) ==
    Min({j \in i..(Len(text) + 1) : j = Len(text) + 1 \/ text[j] \notin WhiteSpace})

\* K1\s+K2\s+...Kn matched at item i, ignoring case: the index after Kn, 0 when
\* there is no match
RECURSIVE KeywordsAt(_, _, _)
KeywordsAt(text, i, keywords) ==
    IF i > Len(text) \/ Upper(text[i]) # Head(keywords) THEN 0
    ELSE IF Len(keywords) = 1 THEN i + 1
    ELSE IF SkipSpace(text, i + 1) = i + 1 THEN 0
    ELSE KeywordsAt(text, SkipSpace(text, i + 1), Tail(keywords))

\* last item of the run of word items that starts at j (j - 1: no word at j)
WordRunEnd(text, j) ==
    Max({k \in (j - 1)..Len(text) : \A t \in j..k : IsWord(text[t])})

\* \s+(\w+(?:\.\w+)?) matched at item i: the group, None when there is no match
NameAt(text, i) ==
    LET Qualified(j, e) ==
            IF e + 2 <= Len(text) /\ text[e + 1] = "." /\ WordRunEnd(text, e + 2) >= e + 2
            THEN Some(Concat(SubSeq(text, j, WordRunEnd(text, e + 2))))
            ELSE Some(Concat(SubSeq(text, j, e)))
        Word(j) == IF WordRunEnd(text, j) < j THEN None ELSE Qualified(j, WordRunEnd(text, j))
    IN  IF i = 0 \/ SkipSpace(text, i) = i THEN None ELSE Word(SkipSpace(text, i))

\* re.search of a pattern K1\s+...Kn\s+(\w+(?:\.\w+)?) given by its keyword
\* lists, the alternative with the optional part first: the group of the
\* leftmost match
SearchName(text, alternatives) ==
    LET Found(i, a) == NameAt(text, KeywordsAt(text, i, alternatives[a]))
        Hits(i) == {a \in DOMAIN alternatives : ~IsNone(Found(i, a))}
        First(starts) ==
            IF starts = {} THEN None ELSE Found(Min(starts), Min(Hits(Min(starts))))
    IN  First({i \in DOMAIN text : Hits(i) # {}})

\* re.search(r'GRANT\s+.*?\s+ON\s+(\w+(?:\.\w+)?)', statement, re.IGNORECASE):
\* .*? does not cross a line end; the leading \s+ is tried longest first, .*?
\* shortest first
SearchGrantName(text) ==
    LET \* <<i, b, o>>: GRANT at i, leading space i+1..b, ON at o after space
        Matches ==
            {m \in (DOMAIN text) \X (DOMAIN text) \X (DOMAIN text) :
                /\ Upper(text[m[1]]) = "GRANT"
                /\ m[1] < m[2] /\ m[2] < m[3] - 1
                /\ \A t \in (m[1] + 1)..m[2] : text[t] \in WhiteSpace
                /\ Upper(text[m[3]]) = "ON"
                /\ \E c \in (m[2] + 1)..(m[3] - 1) :
                      /\ \A t \in c..(m[3] - 1) : text[t] \in WhiteSpace
                      /\ \A t \in (m[2] + 1)..(c - 1) : text[t] # "\n"
                /\ ~IsNone(NameAt(text, m[3] + 1))}
        Pick(ms) ==
            LET i == Min({m[1] : m \in ms})
                b == Max({m[2] : m \in {n \in ms : n[1] = i}})
                o == Min({m[3] : m \in {n \in ms : n[1] = i /\ n[2] = b}})
            IN  NameAt(text, o + 1)
    IN  IF Matches = {} THEN None ELSE Pick(Matches)

\* the prefixes _get_object_type tests, in its order
TypePrefixes ==
    << <<Spaced(<<"CREATE", "OR", "REPLACE", "VIEW">>), "VIEW">>,
       <<Spaced(<<"CREATE", "MATERIALIZED", "VIEW">>), "MATERIALIZED_VIEW">>,
       <<Spaced(<<"CREATE", "OR", "REPLACE", "FUNCTION">>), "FUNCTION">>,
       <<Spaced(<<"CREATE", "TABLE">>), "TABLE">>,
       <<Spaced(<<"CREATE", "INDEX">>), "INDEX">>,
       <<Spaced(<<"CREATE", "TRIGGER">>), "TRIGGER">>,
       <<Spaced(<<"GRANT">>), "GRANT">>,
       <<Spaced(<<"COMMENT", "ON">>), "COMMENT">> >>

\* the object type as Optional: None for a statement of no listed prefix
_get_object_type(statement) ==
    LET Hits(statement_upper) ==
            {k \in DOMAIN TypePrefixes : StartsWith(statement_upper, TypePrefixes[k][1])}
        First(hits) == IF hits = {} THEN None ELSE Some(TypePrefixes[Min(hits)][2])
    IN  First(Hits(UpperText(statement)))

\* the name as Optional
_extract_object_name(statement, obj_type) ==
    CASE obj_type = "VIEW" ->
            SearchName(statement, << <<"CREATE", "OR", "REPLACE", "VIEW">>,
                                     <<"CREATE", "VIEW">> >>)
      [] obj_type = "MATERIALIZED_VIEW" ->
            SearchName(statement, << <<"CREATE", "MATERIALIZED", "VIEW">> >>)
      [] obj_type = "FUNCTION" ->
            SearchName(statement, << <<"CREATE", "OR", "REPLACE", "FUNCTION">>,
                                     <<"CREATE", "FUNCTION">> >>)
      [] obj_type = "TABLE" -> SearchName(statement, << <<"CREATE", "TABLE">> >>)
      [] obj_type = "INDEX" ->
            SearchName(statement, << <<"CREATE", "UNIQUE", "INDEX">>,
                                     <<"CREATE", "INDEX">> >>)
      [] obj_type = "TRIGGER" -> SearchName(statement, << <<"CREATE", "TRIGGER">> >>)
      [] obj_type = "GRANT" -> SearchGrantName(statement)
      [] obj_type = "COMMENT" -> SearchName(statement, << <<"COMMENT", "ON">> >>)
      [] OTHER -> None

(***************************************************************************)
(* SQLParser: the SELECT extractors of a view                              *)
(***************************************************************************)
\* whether the text from item c on is white space followed by one of the
\* keyword lists, or (at_end) is the end of the text, a last line end allowed
Terminated(text, c, terminators, at_end) ==
    \/ at_end /\ (c = Len(text) + 1 \/ (c = Len(text) /\ text[c] = "\n"))
    \/ /\ c <= Len(text)
       /\ text[c] \in WhiteSpace
       /\ \E k \in DOMAIN terminators :
             KeywordsAt(text, SkipSpace(text, c), terminators[k]) # 0

\* re.search(r'K\s+(.*?)T', text, re.DOTALL | re.IGNORECASE).group(1), K a
\* keyword list and T the alternatives \s+T1 | \s+T2 | $ : the group of the
\* leftmost match, the \s+ after K tried longest first and .*? shortest first;
\* None when there is no match
SearchLazy(text, keywords, terminators, at_end) ==
    LET \* <<i, b, c>>: K at i, white space up to b, the group b+1..c-1
        Ends(b) == {c \in (b + 1)..(Len(text) + 1) : Terminated(text, c, terminators, at_end)}
        Spaces(p) == {b \in p..Len(text) : \A t \in p..b : text[t] \in WhiteSpace}
        Splits(p) == {b \in Spaces(p) : Ends(b) # {}}
        Starts == {i \in DOMAIN text :
                      KeywordsAt(text, i, keywords) # 0
                      /\ Splits(KeywordsAt(text, i, keywords)) # {}}
        Group(b) == SubSeq(text, b + 1, Min(Ends(b)) - 1)
        From(i) == Group(Max(Splits(KeywordsAt(text, i, keywords))))
    IN  IF Starts = {} THEN None ELSE Some(From(Min(Starts)))

\* re.sub(r'[^(]*\(([^)]*)\).*', r'\1', col_name): everything up to the end of
\* the line of the first (...) is replaced by what the parentheses hold
RECURSIVE StripWrapper(_)
StripWrapper(col_name) ==
    LET opens == {i \in DOMAIN col_name : col_name[i] = "("}
        Closes(o) == {j \in DOMAIN col_name : j > o /\ col_name[j] = ")"}
        LineEnds(c) == {j \in DOMAIN col_name : j > c /\ col_name[j] = "\n"}
        Rest(c) == IF LineEnds(c) = {} THEN <<>>
                   ELSE StripWrapper(SubSeq(col_name, Min(LineEnds(c)), Len(col_name)))
        Inner(o, c) == SubSeq(col_name, o + 1, c - 1) \o Rest(c)
    IN  IF opens = {} \/ Closes(Min(opens)) = {} THEN col_name
        ELSE Inner(Min(opens), Min(Closes(Min(opens))))

\* whether ' AS ' occurs in the text, the text taken as it is
HasAs(text) ==
    \E k \in DOMAIN text :
        /\ text[k] = "AS"
        /\ k > 1 /\ text[k - 1] = " "
        /\ k < Len(text) /\ text[k + 1] = " "

\* text.split(' AS ')[0]
BeforeAs(text) ==
    IF HasAs(text)
    THEN SubSeq(text, 1, Min({k \in DOMAIN text :
                                 /\ text[k] = "AS"
                                 /\ k > 1 /\ text[k - 1] = " "
                                 /\ k < Len(text) /\ text[k + 1] = " "}) - 2)
    ELSE text

\* text.split('.')[-1]
AfterLastDot(text) ==
    LET dots == {k \in DOMAIN text : text[k] = "."}
    IN  IF dots = {} THEN text ELSE SubSeq(text, Max(dots) + 1, Len(text))

_extract_columns(select_statement) ==
    LET ColName(col) ==
            AfterLastDot(StripWrapper(
                IF HasAs(UpperText(col)) THEN Strip(BeforeAs(col)) ELSE Strip(col)))
        Kept(col_name) ==
            IF col_name # <<>> /\ UpperText(col_name) \notin {<<"*">>, <<"DISTINCT">>}
            THEN <<Concat(col_name)>> ELSE <<>>
        Columns(pieces) == Flatten([k \in 1..Len(pieces) |-> Kept(ColName(Strip(pieces[k])))])
        Split(select_match) ==
            IF IsNone(select_match) THEN <<>>
            ELSE Columns(SplitAt(select_match[1], {","}))
    IN  Split(SearchLazy(select_statement, <<"SELECT">>, << <<"FROM">> >>, FALSE))

\* match.group(1).strip() of an Optional match
StrippedGroup(match) == IF IsNone(match) THEN None ELSE Some(Concat(Strip(match[1])))

_extract_where_clause(select_statement) ==
    StrippedGroup(SearchLazy(select_statement, <<"WHERE">>,
                             << <<"GROUP", "BY">>, <<"ORDER", "BY">> >>, TRUE))

_extract_group_by(select_statement) ==
    StrippedGroup(SearchLazy(select_statement, <<"GROUP", "BY">>,
                             << <<"ORDER", "BY">> >>, TRUE))

_extract_order_by(select_statement) ==
    StrippedGroup(SearchLazy(select_statement, <<"ORDER", "BY">>, <<>>, TRUE))

\* the stripped pieces of the WITH clause, <<>> when there is none
CteParts(select_statement) ==
    LET Parts(pieces) == [k \in 1..Len(pieces) |-> Strip(pieces[k])]
        Split(with_match) ==
            IF IsNone(with_match) THEN <<>> ELSE Parts(SplitAt(with_match[1], {","}))
    IN  Split(SearchLazy(select_statement, <<"WITH">>, << <<"SELECT">> >>, FALSE))

\* name, definition = cte_part.split(' AS ', 1) raises ValueError for a part
\* whose upper case holds ' AS ' while the part itself does not
_extract_ctes_raises(select_statement) ==
    \E part \in Range(CteParts(select_statement)) :
        HasAs(UpperText(part)) /\ ~HasAs(part)

_extract_ctes(select_statement) ==
    LET AsAt(part) == Min({k \in DOMAIN part :
                              /\ part[k] = "AS"
                              /\ k > 1 /\ part[k - 1] = " "
                              /\ k < Len(part) /\ part[k + 1] = " "})
        Entry_(part, k) ==
            [name |-> Concat(Strip(SubSeq(part, 1, k - 2))),
             definition |-> Concat(Strip(SubSeq(part, k + 2, Len(part))))]
        CteOf(part) == IF HasAs(part) THEN <<Entry_(part, AsAt(part))>> ELSE <<>>
        Ctes(parts) == Flatten([k \in 1..Len(parts) |-> CteOf(parts[k])])
    IN  Ctes(CteParts(select_statement))

\* the JOIN keywords of join_pattern, in its order
JoinTypes ==
    << <<"LEFT", "JOIN">>, <<"RIGHT", "JOIN">>, <<"INNER", "JOIN">>, <<"JOIN">>,
       <<"FULL", "OUTER", "JOIN">> >>

\* the lookahead of join_pattern at item c: white space, then a JOIN keyword,
\* WHERE, GROUP BY, ORDER BY or the end of the text
JoinLookahead(text, c) ==
    /\ c <= Len(text)
    /\ text[c] \in WhiteSpace
    /\ \/ SkipSpace(text, c) = Len(text) + 1
       \/ \E k \in DOMAIN JoinTypes : KeywordsAt(text, SkipSpace(text, c), JoinTypes[k]) # 0
       \/ KeywordsAt(text, SkipSpace(text, c), <<"WHERE">>) # 0
       \/ KeywordsAt(text, SkipSpace(text, c), <<"GROUP", "BY">>) # 0
       \/ KeywordsAt(text, SkipSpace(text, c), <<"ORDER", "BY">>) # 0

\* last item of (\w+(?:\.\w+)?) matched after white space at item i, 0 when
\* there is no match
NameEnd(text, i) ==
    LET Qualified(e) ==
            IF e + 2 <= Len(text) /\ text[e + 1] = "." /\ WordRunEnd(text, e + 2) >= e + 2
            THEN WordRunEnd(text, e + 2) ELSE e
        Word(j) == IF WordRunEnd(text, j) < j THEN 0 ELSE Qualified(WordRunEnd(text, j))
    IN  IF i = 0 \/ SkipSpace(text, i) = i THEN 0 ELSE Word(SkipSpace(text, i))

\* one match of join_pattern with the JOIN keyword list at item i:
\* <<type, table, condition, index after the match>>, <<>> when there is none.
\* The pattern is searched without re.DOTALL: the condition holds no line end.
JoinMatchAt(text, i, keywords) ==
    LET \* the ON part: ON at o, white space up to d, the condition d+1..c-1
        Conds(o) ==
            {dc \in (DOMAIN text) \X (1..(Len(text) + 1)) :
                /\ o < dc[1] /\ dc[1] < dc[2]
                /\ \A t \in (o + 1)..dc[1] : text[t] \in WhiteSpace
                /\ \A t \in (dc[1] + 1)..(dc[2] - 1) : text[t] # "\n"
                /\ JoinLookahead(text, dc[2])}
        BestCond(conds) ==
            LET d == Max({dc[1] : dc \in conds})
            IN  <<d, Min({dc[2] : dc \in {x \in conds : x[1] = d}})>>
        WithOn(type, table, dc) ==
            <<type, table,
              IF dc[2] = dc[1] + 1 THEN None
              ELSE Some(Concat(SubSeq(text, dc[1] + 1, dc[2] - 1))),
              dc[2]>>
        \* e: last item of the table name, b: last item of the white space after it
        After(type, table, e, b) ==
            IF b <= Len(text) - 1 /\ Upper(text[b + 1]) = "ON" /\ Conds(b + 1) # {}
            THEN WithOn(type, table, BestCond(Conds(b + 1)))
            ELSE IF b >= e + 2 /\ JoinLookahead(text, b)
            THEN <<type, table, None, b>>
            ELSE <<>>
        Table(p, e) ==
            IF e = 0 \/ SkipSpace(text, e + 1) = e + 1 THEN <<>>
            ELSE After(Concat(UpperText(SubSeq(text, i, p - 1))),
                       Concat(SubSeq(text, SkipSpace(text, p), e)),
                       e, SkipSpace(text, e + 1) - 1)
        Keyword(p) == IF p = 0 THEN <<>> ELSE Table(p, NameEnd(text, p))
    IN  Keyword(KeywordsAt(text, i, keywords))

\* re.finditer(join_pattern, text, re.IGNORECASE) from item 'from' on
RECURSIVE JoinsFrom(_, _)
JoinsFrom(text, from) ==
    LET Hits(i) == {k \in DOMAIN JoinTypes : JoinMatchAt(text, i, JoinTypes[k]) # <<>>}
        Found(m) ==
            <<[type |-> m[1], table |-> m[2], condition |-> m[3]]>>
            \o JoinsFrom(text, m[4])
        First(starts) ==
            IF starts = {} THEN <<>>
            ELSE Found(JoinMatchAt(text, Min(starts), JoinTypes[Min(Hits(Min(starts)))]))
    IN  First({i \in from..Len(text) : Hits(i) # {}})

_extract_joins(select_statement) == JoinsFrom(select_statement, 1)

\* re.findall(r'/\*.*?\*/', text, re.DOTALL) from item 'from' on
RECURSIVE BlockComments(_, _)
BlockComments(text, from) ==
    LET opens == {i \in from..Len(text) :
                     text[i] = "/*" /\ \E j \in (i + 1)..Len(text) : text[j] = "*/"}
        Block(i, j) == <<Concat(SubSeq(text, i, j))>> \o BlockComments(text, j + 1)
        Close(i) == Min({j \in (i + 1)..Len(text) : text[j] = "*/"})
    IN  IF opens = {} THEN <<>> ELSE Block(Min(opens), Close(Min(opens)))

_extract_comments(statement) ==
    LET LineComment(line) ==
            IF StartsWith(line, <<"--">>) THEN <<Concat(line)>> ELSE <<>>
        Lines(pieces) ==
            Flatten([k \in 1..Len(pieces) |-> LineComment(Strip(pieces[k]))])
    IN  Lines(SplitAt(statement, {"\n"})) \o BlockComments(statement, 1)

(***************************************************************************)
(* SQLParser: the objects built from a statement                           *)
(***************************************************************************)
\* re.search(r'AS\s+(.*)', statement, re.DOTALL | re.IGNORECASE).group(1)
\* stripped, as Optional
SelectStatement(statement) ==
    LET starts == {i \in DOMAIN statement :
                      /\ Upper(statement[i]) = "AS"
                      /\ i < Len(statement) /\ statement[i + 1] \in WhiteSpace}
        Rest(i) == SubSeq(statement, SkipSpace(statement, i + 1), Len(statement))
    IN  IF starts = {} THEN None ELSE Some(Strip(Rest(Min(starts))))

\* the object of a statement that holds a SELECT: the object with what the
\* extractors find in the SELECT
ParsedSelect(basic_object, select_statement) ==
    [basic_object
        EXCEPT !.columns = _extract_columns(select_statement),
               !.ctes = _extract_ctes(select_statement),
               !.joins = _extract_joins(select_statement),
               !.where_clause = _extract_where_clause(select_statement),
               !.group_by = _extract_group_by(select_statement),
               !.order_by = _extract_order_by(select_statement)]

_parse_view_or_mv(statement, name, obj_type, comments) ==
    IF IsNone(SelectStatement(statement))
    THEN _create_basic_object(name, obj_type, statement, comments)
    ELSE ParsedSelect(_create_basic_object(name, obj_type, statement, comments),
                      SelectStatement(statement)[1])

\* whether _parse_view_or_mv ends in the ValueError of _extract_ctes
_parse_view_or_mv_raises(statement) ==
    /\ ~IsNone(SelectStatement(statement))
    /\ _extract_ctes_raises(SelectStatement(statement)[1])

\* re.search(r'FUNCTION\s+\w+(?:\.\w+)?\s*\((.*?)\)', ...).group(1) as Optional
ParamsMatch(statement) ==
    LET Open(i) == SkipSpace(statement, NameEnd(statement, i + 1) + 1)
        Closes(o) == {j \in DOMAIN statement : j > o /\ statement[j] = ")"}
        Matches(i) ==
            /\ Upper(statement[i]) = "FUNCTION"
            /\ NameEnd(statement, i + 1) # 0
            /\ Open(i) <= Len(statement)
            /\ statement[Open(i)] = "("
            /\ Closes(Open(i)) # {}
        Group(o) == SubSeq(statement, o + 1, Min(Closes(o)) - 1)
        First(starts) == IF starts = {} THEN None ELSE Some(Group(Open(Min(starts))))
    IN  First({i \in DOMAIN statement : Matches(i)})

\* re.search(r'RETURNS\s+(\w+(?:\([^)]*\))?)', ...).group(1) as Optional
ReturnsMatch(statement) ==
    LET Closes(o) == {j \in DOMAIN statement : j > o /\ statement[j] = ")"}
        Type(j, e) ==
            IF e < Len(statement) /\ statement[e + 1] = "(" /\ Closes(e + 1) # {}
            THEN Concat(SubSeq(statement, j, Min(Closes(e + 1))))
            ELSE Concat(SubSeq(statement, j, e))
        Matches(i) == Upper(statement[i]) = "RETURNS" /\ NameEnd(statement, i + 1) # 0
        Word(j) == Type(j, WordRunEnd(statement, j))
        First(starts) ==
            IF starts = {} THEN None
            ELSE Some(Word(SkipSpace(statement, Min(starts) + 1)))
    IN  First({i \in DOMAIN statement : Matches(i)})

\* parameters is a list here, None on the objects that are no functions
_parse_function(statement, name, comments) ==
    LET Param(piece) == IF Strip(piece) # <<>> THEN <<Concat(Strip(piece))>> ELSE <<>>
        Params(pieces) == Flatten([k \in 1..Len(pieces) |-> Param(pieces[k])])
        Parameters(params_match) ==
            IF IsNone(params_match) THEN <<>>
            ELSE Params(SplitAt(params_match[1], {","}))
    IN  [_create_basic_object(name, "FUNCTION", statement, comments)
            EXCEPT !.parameters = Some(Parameters(ParamsMatch(statement))),
                   !.return_type = ReturnsMatch(statement)]

_parse_index(statement, name, comments) ==
    _create_basic_object(name, "INDEX", statement, comments)

_parse_trigger(statement, name, comments) ==
    _create_basic_object(name, "TRIGGER", statement, comments)

_parse_grant(statement, name, comments) ==
    _create_basic_object(name, "GRANT", statement, comments)

\* statement.count('\n')
CountNewlines(statement) == Cardinality({i \in DOMAIN statement : statement[i] = "\n"})

(***************************************************************************)
(* SQLParser: the statements of the parsed files, as str(statement) of the *)
(* fragments sqlparse.parse returns                                        *)
(***************************************************************************)
ViewStmt == <<"CREATE", " ", "OR", " ", "REPLACE", " ", "VIEW", " ", "v", " ", "AS", " ", "SELECT", " ", "a", ",", " ", "b", " ", "FROM", " ", "t", " ", "WHERE", " ", "x", "=", "1">>

\* a column whose name contains the letters of FROM
ViewDateStmt == <<"CREATE", " ", "OR", " ", "REPLACE", " ", "VIEW", " ", "w", " ", "AS", " ", "SELECT", " ", "a", ",", " ", "from", "_date", " ", "FROM", " ", "t", " ", "WHERE", " ", "x", "=", "1">>

\* an alias, a function wrapper, a qualifier and a star
ViewAliasStmt == <<"CREATE", " ", "OR", " ", "REPLACE", " ", "VIEW", " ", "r", " ", "AS", " ", "SELECT", " ", "t", ".", "amount", " ", "AS", " ", "total", ",", " ", "SUM", "(", "b", ")", ",", " ", "*", " ", "FROM", " ", "t">>

\* three lines, after the line break that ends the statement before
ViewLinesStmt == <<"\n", "CREATE", " ", "OR", " ", "REPLACE", " ", "VIEW", " ", "v", " ", "AS", "\n", "SELECT", " ", "a", "\n", "FROM", " ", "t", ";">>

ViewLowerStmt == <<"create", " ", "or", " ", "replace", " ", "view", " ", "v", " ", "as", " ", "select", " ", "a", " ", "from", " ", "t">>

\* a CTE written in lower case
ViewCteStmt == <<"CREATE", " ", "OR", " ", "REPLACE", " ", "VIEW", " ", "v", " ", "AS", " ", "with", " ", "c", " ", "as", " ", "(", "SELECT", " ", "a", " ", "FROM", " ", "t", ")", " ", "SELECT", " ", "a", " ", "FROM", " ", "c">>

ViewBareStmt == <<"CREATE", " ", "OR", " ", "REPLACE", " ", "VIEW", " ", "v">>

MaterializedStmt == <<"CREATE", " ", "MATERIALIZED", " ", "VIEW", " ", "m", " ", "AS", " ", "SELECT", " ", "DISTINCT", " ", "a", " ", "FROM", " ", "t", " ", "LEFT", " ", "JOIN", " ", "b", " ", "ON", " ", "a", ".", "id", "=", "b", ".", "id", " ">>

FunctionStmt == <<"CREATE", " ", "OR", " ", "REPLACE", " ", "FUNCTION", " ", "f", "(", "p", " ", "INT", ")", " ", "RETURNS", " ", "INT">>

UniqueIndexStmt == <<"CREATE", " ", "UNIQUE", " ", "INDEX", " ", "i", " ", "ON", " ", "t", " ", "(", "id", ")">>

IndexStmt == <<"CREATE", " ", "INDEX", " ", "i", " ", "ON", " ", "t", " ", "(", "id", ")">>

TriggerStmt == <<"CREATE", " ", "TRIGGER", " ", "g">>

GrantStmt == <<"GRANT", " ", "SELECT", " ", "ON", " ", "t", " ", "TO", " ", "app">>

\* a GRANT without ON: classified, no name
GrantAllStmt == <<"GRANT", " ", "app", " ", "TO", " ", "r">>

CommentStmt == <<"COMMENT", " ", "ON", " ", "TABLE", " ", "t", " ", "IS", " ", "x">>

AnalyzeStmt == <<"ANALYZE", " ", "t">>

PlainViewStmt == <<"CREATE", " ", "VIEW", " ", "v", " ", "AS", " ", "SELECT", " ", "a", " ", "FROM", " ", "t">>

\* a CREATE TABLE without a name
UnnamedTableStmt == <<"CREATE", " ", "TABLE", " ", "(", "id", " ", "INT", ")">>

\* the line breaks after the last statement of a file
BlankStmt == <<"\n", "\n">>

\* a block comment, then a single-line comment
CommentedStmt == <<"CREATE", " ", "TRIGGER", " ", "g", " ", "/*", " ", "b", " ", "*/", "\n", "--", " ", "s">>

StatementPool ==
    {ViewStmt, ViewDateStmt, ViewAliasStmt, ViewLinesStmt, ViewLowerStmt, ViewCteStmt,
     ViewBareStmt, MaterializedStmt, FunctionStmt, UniqueIndexStmt, IndexStmt,
     TriggerStmt, GrantStmt, GrantAllStmt, CommentStmt, AnalyzeStmt, PlainViewStmt,
     UnnamedTableStmt, BlankStmt, CommentedStmt, TableLinesStmt, TableIdStmt}

\* what sqlparse.parse can return for the files: up to MaxStatements statements
Files == UNION {[1..n -> StatementPool] : n \in 0..MaxStatements}

(***************************************************************************)
(* SQLParser: _parse_statement and parse_file                              *)
(***************************************************************************)
ViewTypes == {"VIEW", "MATERIALIZED_VIEW"}

\* the dispatch of _parse_statement on the object type
ParsedObject(statement_str, obj_type, name, comments) ==
    CASE obj_type \in ViewTypes ->
            _parse_view_or_mv(statement_str, name, obj_type, comments)
      [] obj_type = "FUNCTION" -> _parse_function(statement_str, name, comments)
      [] obj_type = "TABLE" -> _parse_table(statement_str, name, comments)
      [] obj_type = "INDEX" -> _parse_index(statement_str, name, comments)
      [] obj_type = "TRIGGER" -> _parse_trigger(statement_str, name, comments)
      [] obj_type = "GRANT" -> _parse_grant(statement_str, name, comments)
      [] OTHER -> _create_basic_object(name, obj_type, statement_str, comments)

\* start_line=self.current_line, end_line=self.current_line + statement.count('\n')
Located(obj, line, statement_str) ==
    obj @@ [start_line |-> line, end_line |-> line + CountNewlines(statement_str)]

\* a SQLParser between two statements; raised: an exception left _parse_statement
NewParser == [objects |-> <<>>, current_line |-> 0, raised |-> FALSE]

\* self.current_line += statement_str.count('\n') + 1
LineAfter(parser, statement_str) ==
    parser.current_line + CountNewlines(statement_str) + 1

\* _parse_statement returns after the line count: no object
Counted(parser, statement_str) ==
    [parser EXCEPT !.current_line = LineAfter(parser, statement_str)]

\* _parse_statement from the comments on, for a statement with type and name
EmitObject(parser, statement_str, obj_type, name) ==
    IF obj_type \in ViewTypes /\ _parse_view_or_mv_raises(statement_str)
    THEN [parser EXCEPT !.current_line = LineAfter(parser, statement_str),
                        !.raised = TRUE]
    ELSE [parser EXCEPT
             !.current_line = LineAfter(parser, statement_str),
             !.objects = Append(@, Located(ParsedObject(statement_str, obj_type, name,
                                               _extract_comments(statement_str)),
                                           LineAfter(parser, statement_str),
                                           statement_str))]

\* variant: a classified statement without a name is emitted with an empty name
NamedStatement_EmitsUnnamed(parser, statement_str, obj_type, name) ==
    EmitObject(parser, statement_str, obj_type, IF IsNone(name) THEN "" ELSE name[1])

\* _parse_statement from the name on; name is the Optional name
NamedStatement(parser, statement_str, obj_type, name) ==
    IF IsNone(name) THEN Counted(parser, statement_str)
    ELSE EmitObject(parser, statement_str, obj_type, name[1])

\* _parse_statement from the type on; obj_type is the Optional type
TypedStatement(parser, statement_str, obj_type) ==
    IF IsNone(obj_type) THEN Counted(parser, statement_str)
    ELSE NamedStatement(parser, statement_str, obj_type[1],
                        _extract_object_name(statement_str, obj_type[1]))

\* the parser after _parse_statement(statement, lines)
_parse_statement(parser, statement) ==
    IF Strip(statement) = <<>> THEN parser
    ELSE TypedStatement(parser, Strip(statement), _get_object_type(Strip(statement)))

\* the loop of parse_file over the statements, left at the first exception
RECURSIVE ParseStatements(_, _)
ParseStatements(parser, statements) ==
    IF statements = <<>> \/ parser.raised THEN parser
    ELSE ParseStatements(_parse_statement(parser, Head(statements)), Tail(statements))

\* variant: parse_file does not reset the line counter
parse_file_KeepsLine(parser, statements) ==
    ParseStatements([parser EXCEPT !.objects = <<>>, !.raised = FALSE], statements)

\* parse_file on a file that can be read, called on the parser as the call
\* before left it: self.objects = [], self.current_line = 0, then the loop
parse_file(parser, statements) ==
    ParseStatements([parser EXCEPT !.objects = <<>>, !.current_line = 0,
                                   !.raised = FALSE], statements)

\* variant: self.objects.clear() in place of self.objects = []
Rebind_ClearsInPlace(lists) == [lists EXCEPT !.lists[lists.current] = <<>>]

\* self.objects = []: a new list, the lists made before are left as they are
Rebind(lists) ==
    [lists |-> Append(lists.lists, <<>>), current |-> Len(lists.lists) + 1]

\* self.objects.append(obj) for the objects of one parse_file call: they go
\* into the list self.objects is
Appended(lists, objs) == [lists EXCEPT !.lists[lists.current] = @ \o objs]

\* SQLParser(): self.objects is one empty list, no call made
ReuseIdle ==
    /\ heap = [lists |-> << <<>> >>, current |-> 1]
    /\ calls = <<>>

\* SQLParser(): no file parsed yet
ParserIdle ==
    /\ parsed = <<>>
    /\ position = 0
    /\ objects = <<>>
    /\ current_line = 0
    /\ parser_pc = "idle"

(***************************************************************************)
(* ReportGenerator: the file pairs of a batch and what becomes of one pair *)
(***************************************************************************)
\* a path of a pair as found on disk: "missing" (os.path.exists is false),
\* "undecodable" (open or read raises) or "ok" with the statements of its content
MissingFile == [state |-> "missing", statements |-> <<>>]

UndecodableFile == [state |-> "undecodable", statements |-> <<>>]

OkFile(statements) == [state |-> "ok", statements |-> statements]

BatchContents == {<<TableFullStmt, GrantW.definition>>, <<TableIdStmt>>}

DiskFiles == {MissingFile, UndecodableFile} \cup {OkFile(c) : c \in BatchContents}

\* what os.listdir can list: files that exist
ListedFiles == {UndecodableFile, OkFile(<<TableFullStmt, GrantW.definition>>)}

\* a pair whose source is a file, and a pair whose source ends with '/':
\* source holds the one file, or the .sql files of the directory (none also
\* when the directory is missing)
FilePairs ==
    {[directory |-> FALSE, source |-> <<f>>, docker |-> g] :
        f \in DiskFiles, g \in DiskFiles}
    \cup {[directory |-> TRUE, source |-> fs, docker |-> g] :
             fs \in UNION {[1..n -> ListedFiles] : n \in 0..MaxSourceFiles},
             g \in DiskFiles}

\* self.parser.parse_file(path) on the parser as the call before left it
ParseFileAt(parser, file) ==
    IF file.state # "ok" THEN [parser EXCEPT !.raised = TRUE]
    ELSE parse_file(parser, file.statements)

\* the parse_file calls of one pair, in order, up to the first that raises:
\* the parser before the first call and as each call left it
RECURSIVE ParseFiles(_, _)
ParseFiles(parsers, files) ==
    IF files = <<>> \/ parsers[Len(parsers)].raised THEN parsers
    ELSE ParseFiles(Append(parsers, ParseFileAt(parsers[Len(parsers)], Head(files))),
                    Tail(files))

\* a pair that is skipped with a warning: return []
Skipped(parser) ==
    [parser |-> parser, raised |-> FALSE, compared |-> FALSE,
     source_objects |-> <<>>, docker_objects |-> <<>>]

\* the files parsed, the sources first and the docker file last: an exception
\* of parse_file leaves the method, else compare_files is called on the
\* lists the calls returned
Compared(parsers) ==
    IF parsers[Len(parsers)].raised
    THEN [parser |-> parsers[Len(parsers)], raised |-> TRUE, compared |-> FALSE,
          source_objects |-> <<>>, docker_objects |-> <<>>]
    ELSE [parser |-> parsers[Len(parsers)], raised |-> FALSE, compared |-> TRUE,
          source_objects |-> Flatten([k \in 1..(Len(parsers) - 2) |->
                                         parsers[k + 1].objects]),
          docker_objects |-> parsers[Len(parsers)].objects]

_process_single_pair(parser, pair) ==
    IF pair.source[1].state = "missing" \/ pair.docker.state = "missing"
    THEN Skipped(parser)
    ELSE Compared(ParseFiles(<<parser>>, <<pair.source[1], pair.docker>>))

_process_multiple_sources(parser, pair) ==
    IF pair.docker.state = "missing" \/ pair.source = <<>>
    THEN Skipped(parser)
    ELSE Compared(ParseFiles(<<parser>>, pair.source \o <<pair.docker>>))

\* the branch of generate_all_reports on pair['source'].endswith('/')
ProcessedPair(parser, pair) ==
    IF pair.directory THEN _process_multiple_sources(parser, pair)
    ELSE _process_single_pair(parser, pair)

\* ReportGenerator(): nothing processed yet
BatchIdle ==
    /\ file_pairs = <<>>
    /\ pair_index = 0
    /\ pair_results = <<>>
    /\ all_results = <<>>
    /\ batch_pc = "pairs"

(***************************************************************************)
(* The driver: build two object lists, compare them twice with the same    *)
(* comparator (sql_comparator.py __main__, ReportGenerator), then compare  *)
(* them the other way round                                                *)
(***************************************************************************)
Init ==
    /\ source_objects = <<>>
    /\ docker_objects = <<>>
    /\ results = <<>>
    /\ first_run = <<>>
    /\ second_run = <<>>
    /\ swapped_run = <<>>
    /\ pc = "build"
    /\ hash_seed \in HashSeeds
    /\ ParserIdle
    /\ BatchIdle
    /\ ReuseIdle

\* one more object parsed from the reference file(s)
AppendSource ==
    /\ pc = "build"
    /\ Len(source_objects) + Len(docker_objects) < MaxObjects
    /\ \E obj \in ObjectPool :
          /\ SameFamily(Append(source_objects, obj) \o docker_objects)
          /\ source_objects' = Append(source_objects, obj)
    /\ UNCHANGED <<docker_objects, results, first_run, second_run, swapped_run,
                   pc, hash_seed, parser_vars, batch_vars, reuse_vars>>

\* one more object parsed from the candidate file
AppendDocker ==
    /\ pc = "build"
    /\ Len(source_objects) + Len(docker_objects) < MaxObjects
    /\ \E obj \in ObjectPool :
          /\ SameFamily(source_objects \o Append(docker_objects, obj))
          /\ docker_objects' = Append(docker_objects, obj)
    /\ UNCHANGED <<source_objects, results, first_run, second_run, swapped_run,
                   pc, hash_seed, parser_vars, batch_vars, reuse_vars>>

\* results = comparator.compare_files(source_objects, docker_objects)
Compare ==
    /\ pc = "build"
    /\ results' = compare_files(results, source_objects, docker_objects, hash_seed)
    /\ first_run' = results'
    /\ pc' = "once"
    /\ UNCHANGED <<source_objects, docker_objects, second_run, swapped_run, hash_seed,
                   parser_vars, batch_vars, reuse_vars>>

\* the same call again on the same comparator
CompareAgain ==
    /\ pc = "once"
    /\ results' = compare_files(results, source_objects, docker_objects, hash_seed)
    /\ second_run' = results'
    /\ pc' = "twice"
    /\ UNCHANGED <<source_objects, docker_objects, first_run, swapped_run, hash_seed,
                   parser_vars, batch_vars, reuse_vars>>

\* comparator.compare_files(docker_objects, source_objects)
CompareSwapped ==
    /\ pc = "twice"
    /\ results' = compare_files(results, docker_objects, source_objects, hash_seed)
    /\ swapped_run' = results'
    /\ pc' = "swapped"
    /\ UNCHANGED <<source_objects, docker_objects, first_run, second_run, hash_seed,
                   parser_vars, batch_vars, reuse_vars>>

Next == AppendSource \/ AppendDocker \/ Compare \/ CompareAgain \/ CompareSwapped

Spec == Init /\ [][Next]_vars

(***************************************************************************)
(* One SQLParser used on one file after another                            *)
(***************************************************************************)
ComparatorIdle ==
    /\ source_objects = <<>>
    /\ docker_objects = <<>>
    /\ results = <<>>
    /\ first_run = <<>>
    /\ second_run = <<>>
    /\ swapped_run = <<>>
    /\ pc = "build"

ParserInit ==
    /\ ComparatorIdle
    /\ hash_seed \in HashSeeds
    /\ ParserIdle
    /\ BatchIdle
    /\ ReuseIdle
    /\ BatchIdle

\* parse_file up to sqlparse.parse: the file is read, the parser reset
OpenFile ==
    /\ parser_pc \in {"idle", "returned", "raised"}
    /\ parsed' = <<>>
    /\ position' = 0
    /\ objects' = <<>>
    /\ current_line' = 0
    /\ parser_pc' = "reading"
    /\ UNCHANGED <<comparator_vars, hash_seed, batch_vars, reuse_vars>>

\* sqlparse.parse(content) finds one more statement in the content
SplitStatement ==
    /\ parser_pc = "reading"
    /\ Len(parsed) < MaxStatements
    /\ \E statement \in StatementPool : parsed' = Append(parsed, statement)
    /\ UNCHANGED <<comparator_vars, hash_seed, batch_vars, reuse_vars, position, objects, current_line, parser_pc>>

\* sqlparse.parse(content) returns: the loop over the statements starts
EndOfContent ==
    /\ parser_pc = "reading"
    /\ parser_pc' = "parsing"
    /\ UNCHANGED <<comparator_vars, hash_seed, batch_vars, reuse_vars, parsed, position, objects, current_line>>

\* parse_file on a file open() or read() raises for: nothing is reset
OpenFails ==
    /\ parser_pc \in {"idle", "returned", "raised"}
    /\ parser_pc' = "raised"
    /\ UNCHANGED <<comparator_vars, hash_seed, batch_vars, reuse_vars, parsed, position, objects, current_line>>

\* one turn of the loop: self._parse_statement(statement, lines)
ParseStatement ==
    /\ parser_pc = "parsing"
    /\ position < Len(parsed)
    /\ LET After(parser) ==
               /\ objects' = parser.objects
               /\ current_line' = parser.current_line
               /\ position' = IF parser.raised THEN position ELSE position + 1
               /\ parser_pc' = IF parser.raised THEN "raised" ELSE "parsing"
       IN  After(_parse_statement([objects |-> objects, current_line |-> current_line,
                                   raised |-> FALSE], parsed[position + 1]))
    /\ UNCHANGED <<comparator_vars, hash_seed, batch_vars, reuse_vars, parsed>>

\* return self.objects
ReturnObjects ==
    /\ parser_pc = "parsing"
    /\ position = Len(parsed)
    /\ parser_pc' = "returned"
    /\ UNCHANGED <<comparator_vars, hash_seed, batch_vars, reuse_vars, parsed, position, objects, current_line>>

ParserNext ==
    \/ OpenFile \/ OpenFails \/ SplitStatement \/ EndOfContent
    \/ ParseStatement \/ ReturnObjects

ParserSpec == ParserInit /\ [][ParserNext]_vars

(***************************************************************************)
(* generate_all_reports: one parser and one comparator over the file pairs *)
(***************************************************************************)
BatchInit ==
    /\ ComparatorIdle
    /\ hash_seed \in HashSeeds
    /\ ParserIdle
    /\ file_pairs \in UNION {[1..n -> FilePairs] : n \in 1..MaxPairs}
    /\ pair_index = 0
    /\ pair_results = <<>>
    /\ all_results = <<>>
    /\ batch_pc = "pairs"
    /\ ReuseIdle

\* one turn of the loop over file_pairs: the pair is processed, its results
\* are added to all_results and written to its individual report
ProcessPair ==
    /\ batch_pc = "pairs"
    /\ pair_index < Len(file_pairs)
    /\ LET After(outcome) ==
               /\ objects' = outcome.parser.objects
               /\ current_line' = outcome.parser.current_line
               /\ results' = IF outcome.compared
                             THEN compare_files(results, outcome.source_objects,
                                                outcome.docker_objects, hash_seed)
                             ELSE results
               /\ IF outcome.raised
                  THEN /\ batch_pc' = "raised"
                       /\ UNCHANGED <<pair_index, pair_results, all_results>>
                  ELSE /\ batch_pc' = "pairs"
                       /\ pair_index' = pair_index + 1
                       /\ pair_results' = Append(pair_results,
                                                 IF outcome.compared THEN results' ELSE <<>>)
                       /\ all_results' = all_results
                                         \o (IF outcome.compared THEN results' ELSE <<>>)
       IN  After(ProcessedPair([objects |-> objects, current_line |-> current_line,
                                raised |-> FALSE], file_pairs[pair_index + 1]))
    /\ UNCHANGED <<source_objects, docker_objects, first_run, second_run, swapped_run, pc,
                   hash_seed, parsed, position, parser_pc, file_pairs, reuse_vars>>

\* after the loop: the master summary and the checklists are written
FinishReports ==
    /\ batch_pc = "pairs"
    /\ pair_index = Len(file_pairs)
    /\ batch_pc' = "done"
    /\ UNCHANGED <<comparator_vars, hash_seed, parser_vars, file_pairs, pair_index,
                   pair_results, all_results, reuse_vars>>

BatchNext == ProcessPair \/ FinishReports

BatchSpec == BatchInit /\ [][BatchNext]_vars

(***************************************************************************)
(* One SQLParser used for several files, as ReportGenerator uses           *)
(* self.parser for every file of every pair.  A call that raises is caught *)
(* by the caller, who goes on to the next file.                            *)
(***************************************************************************)

\* the files the parser is given: unreadable, empty, with leading newlines,
\* with two statements, and one whose second statement raises
ReuseFiles ==
    {UndecodableFile, OkFile(<<>>), OkFile(<<ViewLinesStmt>>),
     OkFile(<<TableLinesStmt, GrantStmt>>), OkFile(<<GrantStmt, ViewCteStmt>>)}

ReuseInit ==
    /\ ComparatorIdle
    /\ hash_seed \in HashSeeds
    /\ ParserIdle
    /\ BatchIdle
    /\ ReuseIdle

\* the lists after one parse_file call: open() raising leaves them alone,
\* otherwise self.objects is made anew and the objects are appended to it
ListsAfter(lists, file, parser) ==
    IF file.state # "ok" THEN lists ELSE Appended(Rebind(lists), parser.objects)

\* one parse_file call on the parser as the calls before left it; what the
\* call returned is the list self.objects is at the return
ParseFile ==
    /\ Len(calls) < MaxCalls
    /\ \E file \in ReuseFiles :
           LET After(parser, lists) ==
                   /\ objects' = parser.objects
                   /\ current_line' = parser.current_line
                   /\ heap' = lists
                   /\ calls' = Append(calls, [file |-> file,
                                              raised |-> parser.raised,
                                              list |-> lists.current,
                                              objects |-> lists.lists[lists.current]])
               Returned(parser) == After(parser, ListsAfter(heap, file, parser))
           IN  Returned(ParseFileAt([objects |-> objects, current_line |-> current_line,
                                     raised |-> FALSE], file))
    /\ UNCHANGED <<comparator_vars, hash_seed, parsed, position, parser_pc, batch_vars>>

\* the caller drops the parser; a new SQLParser() is made
NewSQLParser ==
    /\ calls # <<>>
    /\ objects' = <<>>
    /\ current_line' = 0
    /\ heap' = [lists |-> << <<>> >>, current |-> 1]
    /\ calls' = <<>>
    /\ UNCHANGED <<comparator_vars, hash_seed, parsed, position, parser_pc, batch_vars>>

ReuseNext == ParseFile \/ NewSQLParser

ReuseSpec == ReuseInit /\ [][ReuseNext]_vars

\* C24: every parse_file call that returned, whatever files the parser had
\* parsed before it, returned the object sequence, start and end lines
\* included, that parse_file returns for the same file on a fresh parser, and
\* the list it returned still holds exactly those objects after the later calls
C24_ParseIsFunctionOfText ==
    \A k \in 1..Len(calls) :
        ~calls[k].raised =>
            /\ calls[k].objects = parse_file(NewParser, calls[k].file.statements).objects
            /\ heap.lists[calls[k].list] = calls[k].objects

\* a file with objects on later lines was parsed and returned, then a different
\* file with objects was parsed and returned by the same parser
C24_Witness ==
    \E k \in 2..Len(calls) :
        /\ ~calls[k - 1].raised /\ ~calls[k].raised
        /\ calls[k - 1].file # calls[k].file
        /\ calls[k - 1].objects # <<>> /\ calls[k].objects # <<>>
        /\ \E i \in 1..Len(calls[k - 1].objects) : calls[k - 1].objects[i].end_line > 1
        /\ calls[k].list # calls[k - 1].list

(***************************************************************************)
(* What the claims are stated over                                         *)
(***************************************************************************)
NamesOf(objs) == {objs[i].name : i \in DOMAIN objs}

\* the last object of that name in the sequence
LastNamed(objs, name) ==
    objs[Max({i \in DOMAIN objs : objs[i].name = name})]

\* the compare_files calls made so far: <<returned list, reference, candidate>>
Calls ==
    (IF pc # "build" THEN {<<first_run, source_objects, docker_objects>>} ELSE {})
    \cup (IF pc \in {"twice", "swapped"}
          THEN {<<second_run, source_objects, docker_objects>>} ELSE {})
    \cup (IF pc = "swapped"
          THEN {<<swapped_run, docker_objects, source_objects>>} ELSE {})

OnBothSides(call, name) == name \in NamesOf(call[2]) \cap NamesOf(call[3])

Full == <<100, 1>>
Zero == <<0, 1>>

\* C1: compare_files returns exactly one result for every name of either
\* sequence, none for any other name, and none at all for two empty sequences.
C1_OneResultPerName ==
    \A call \in Calls :
        LET run == call[1]
            names == NamesOf(call[2]) \cup NamesOf(call[3])
        IN  /\ \A n \in names :
                  Cardinality({i \in DOMAIN run : run[i].object_name = n}) = 1
            /\ \A i \in DOMAIN run : run[i].object_name \in names
            /\ (call[2] = <<>> /\ call[3] = <<>>) => run = <<>>

\* three objects under two names, one name twice on the reference side
C1_Witness ==
    /\ pc = "once"
    /\ Len(source_objects) = 2 /\ Len(docker_objects) = 1
    /\ source_objects[1].name = source_objects[2].name
    /\ docker_objects[1].name # source_objects[1].name
    /\ Len(first_run) = 2

\* C2: a name whose two objects are identical gets status MATCH, completeness
\* 100 and accuracy 100.
C2_IdenticalObjectsScoreFull ==
    \A call \in Calls : \A i \in DOMAIN call[1] :
        LET r == call[1][i]
            n == r.object_name
        IN  (OnBothSides(call, n) /\ LastNamed(call[2], n) = LastNamed(call[3], n))
            => /\ r.status = "MATCH"
               /\ r.completeness_percentage = Full
               /\ r.accuracy_percentage = Full

\* C3: a name of the reference only gives MISSING, a name of the candidate
\* only gives EXTRA, both with scores 0 and one difference; a name of both
\* sides gives neither.
C3_OneSidedNames ==
    \A call \in Calls : \A i \in DOMAIN call[1] :
        LET r == call[1][i]
            n == r.object_name
            OneSided(status) ==
                /\ r.status = status
                /\ r.completeness_percentage = Zero
                /\ r.accuracy_percentage = Zero
                /\ Len(r.differences) = 1
        IN  /\ (n \in NamesOf(call[2]) \ NamesOf(call[3])) => OneSided("MISSING")
            /\ (n \in NamesOf(call[3]) \ NamesOf(call[2])) => OneSided("EXTRA")
            /\ OnBothSides(call, n) => r.status \notin {"MISSING", "EXTRA"}

C3_Witness ==
    /\ pc = "once"
    /\ \E i \in DOMAIN first_run : first_run[i].status = "MISSING"
    /\ \E i \in DOMAIN first_run : first_run[i].status = "EXTRA"

\* C4: for a name of both sides the status is MATCH exactly when the
\* differences list is empty, and DIFFERENT otherwise.
C4_MatchIffNoDifferences ==
    \A call \in Calls : \A i \in DOMAIN call[1] :
        LET r == call[1][i]
        IN  OnBothSides(call, r.object_name)
            => /\ r.status \in {"MATCH", "DIFFERENT"}
               /\ (r.status = "MATCH") <=> (r.differences = <<>>)

C4_Witness ==
    /\ pc = "once"
    /\ \E i \in DOMAIN first_run :
          /\ first_run[i].object_name \in NamesOf(source_objects) \cap NamesOf(docker_objects)
          /\ first_run[i].status = "DIFFERENT"
          /\ Len(first_run[i].differences) >= 2

\* C5: the result of a name is the one its last object on each side gives,
\* whatever the kinds of the objects sharing the name.
C5_LastWriteWins ==
    \A call \in Calls : \A i \in DOMAIN call[1] :
        LET r == call[1][i]
            n == r.object_name
        IN  IF OnBothSides(call, n)
            THEN r = _compare_objects(LastNamed(call[2], n), LastNamed(call[3], n),
                                      hash_seed)
            ELSE IF n \in NamesOf(call[2])
            THEN r.status = "MISSING" /\ r.object_type = LastNamed(call[2], n).type
            ELSE r.status = "EXTRA" /\ r.object_type = LastNamed(call[3], n).type

\* two reference objects of one name and different kinds, the name also on
\* the candidate side, and the earlier object would have given another result
C5_Witness ==
    /\ pc = "once"
    /\ Len(source_objects) = 2 /\ Len(docker_objects) = 1
    /\ source_objects[1].name = source_objects[2].name
    /\ source_objects[1].type # source_objects[2].type
    /\ docker_objects[1].name = source_objects[1].name
    /\ Len(first_run) = 1
    /\ first_run[1] # _compare_objects(source_objects[1], docker_objects[1], hash_seed)

\* C6: completeness is 100 * matched / total over the reference's column
\* entries, CTEs, JOINs and non-absent clauses, and 100 when total is 0.
C6_CompletenessFormula ==
    \A call \in Calls : \A i \in DOMAIN call[1] :
        LET r == call[1][i]
            n == r.object_name
            s == LastNamed(call[2], n)
            d == LastNamed(call[3], n)
            Present(c) == IF IsNone(c) THEN 0 ELSE 1
            Same(c, e) == IF ~IsNone(c) /\ c = e THEN 1 ELSE 0
            total ==
                Len(s.columns) + Len(s.ctes) + Len(s.joins)
                + Present(s.where_clause) + Present(s.group_by) + Present(s.order_by)
            matched ==
                Cardinality({k \in DOMAIN s.columns : s.columns[k] \in Range(d.columns)})
                + Cardinality({k \in DOMAIN s.ctes :
                      s.ctes[k].name \in {c.name : c \in Range(d.ctes)}})
                + Cardinality({k \in DOMAIN s.joins :
                      <<s.joins[k].type, s.joins[k].table>>
                          \in {<<j.type, j.table>> : j \in Range(d.joins)}})
                + Same(s.where_clause, d.where_clause)
                + Same(s.group_by, d.group_by)
                + Same(s.order_by, d.order_by)
        IN  OnBothSides(call, n)
            => r.completeness_percentage
                  = (IF total = 0 THEN Full ELSE Pct(matched, total))

\* C7: two objects that differ in the order of their columns only get the
\* one difference "Column order differs" and completeness 100.
C7_ColumnOrderOnly ==
    \A call \in Calls : \A i \in DOMAIN call[1] :
        LET r == call[1][i]
            n == r.object_name
            s == LastNamed(call[2], n)
            d == LastNamed(call[3], n)
            Rest(o) == [o EXCEPT !.columns = <<>>, !.definition = <<>>]
        IN  (/\ OnBothSides(call, n)
             /\ s.columns # d.columns
             /\ Range(s.columns) = Range(d.columns)
             /\ Rest(s) = Rest(d))
            => /\ r.differences = <<"Column order differs">>
               /\ r.completeness_percentage = Full

\* C8: comparing the other way round turns MISSING into EXTRA and EXTRA into
\* MISSING for the same name, with scores 0 both ways, and keeps the names.
C8_SwapSymmetry ==
    pc = "swapped" =>
        LET Scored0(r) ==
                r.completeness_percentage = Zero /\ r.accuracy_percentage = Zero
            Turns(run, other, from, to) ==
                \A i \in DOMAIN run :
                    run[i].status = from
                    => /\ Scored0(run[i])
                       /\ \E j \in DOMAIN other :
                             /\ other[j].object_name = run[i].object_name
                             /\ other[j].status = to
                             /\ Scored0(other[j])
        IN  /\ {first_run[i].object_name : i \in DOMAIN first_run}
                 = {swapped_run[j].object_name : j \in DOMAIN swapped_run}
            /\ Len(first_run) = Len(swapped_run)
            /\ Turns(first_run, swapped_run, "MISSING", "EXTRA")
            /\ Turns(first_run, swapped_run, "EXTRA", "MISSING")

C8_Witness ==
    /\ pc = "swapped"
    /\ \E i \in DOMAIN first_run : first_run[i].status = "MISSING"
    /\ \E i \in DOMAIN first_run : first_run[i].status = "EXTRA"
    /\ \E j \in DOMAIN swapped_run : swapped_run[j].status = "EXTRA"

\* C9: the second compare_files call on the same sequences with the same
\* comparator returns the list the first call returned.
C9_SecondRunSame ==
    pc \in {"twice", "swapped"} => second_run = first_run

C9_Witness ==
    /\ pc = "twice"
    /\ Len(first_run) = 2
    /\ \E i \in DOMAIN second_run : Len(second_run[i].differences) >= 2

\* C10: every reference column that the candidate's column set lacks has
\* exactly one entry "Missing column: <col>" in missing_components, the status
\* is then DIFFERENT and completeness below 100; the table (id, name, PRIMARY
\* KEY (id)) against the table (id) gives ["Missing column: name"].
C10_MissingColumns ==
    \A call \in Calls : \A i \in DOMAIN call[1] :
        LET r == call[1][i]
            n == r.object_name
            s == LastNamed(call[2], n)
            d == LastNamed(call[3], n)
            lacking == Range(s.columns) \ Range(d.columns)
        IN  OnBothSides(call, n)
            => /\ \A col \in lacking :
                     Cardinality({k \in DOMAIN r.missing_components :
                         r.missing_components[k] = "Missing column: " \o col}) = 1
               /\ lacking # {}
                  => /\ r.status = "DIFFERENT"
                     /\ PctLess(r.completeness_percentage, Full)
               /\ (s.definition = TableFullStmt /\ d.definition = TableIdStmt)
                  => r.missing_components = <<"Missing column: name">>

C10_Witness ==
    /\ pc = "once"
    /\ Len(source_objects) = 1 /\ Len(docker_objects) = 1
    /\ source_objects[1].definition = TableFullStmt
    /\ docker_objects[1].definition = TableIdStmt
    /\ first_run[1].missing_components = <<"Missing column: name">>

\* C11: completeness and accuracy of every result lie in [0, 100], also for
\* objects with repeated column, CTE or JOIN entries.
C11_ScoresInRange ==
    \A call \in Calls : \A i \in DOMAIN call[1] :
        LET r == call[1][i]
            InRange(p) == p[2] > 0 /\ 0 <= p[1] /\ p[1] <= 100 * p[2]
        IN  InRange(r.completeness_percentage) /\ InRange(r.accuracy_percentage)

\* a candidate that repeats a column is scored against a reference without
\* the repetition, and a reference that repeats a CTE name against itself
C11_Witness ==
    /\ pc = "swapped"
    /\ \E i \in DOMAIN first_run, j \in DOMAIN swapped_run :
          /\ first_run[i].object_name = swapped_run[j].object_name
          /\ first_run[i].status = "DIFFERENT"
          /\ \E s \in Range(source_objects), d \in Range(docker_objects) :
                /\ s.name = first_run[i].object_name /\ d.name = s.name
                /\ Len(s.columns) = Cardinality(Range(s.columns))
                /\ Len(d.columns) > Cardinality(Range(d.columns))
                /\ Range(s.columns) \subseteq Range(d.columns)
          /\ PctLess(Zero, swapped_run[j].completeness_percentage)

\* C12: a result carries the kind of the reference object when the name is in
\* the reference and of the candidate object otherwise; two objects of one
\* name and different kinds get a type-mismatch difference and DIFFERENT.
C12_RecordedKind ==
    \A call \in Calls : \A i \in DOMAIN call[1] :
        LET r == call[1][i]
            n == r.object_name
            Mismatch(s, d) ==
                "Type mismatch: source=" \o s.type \o ", docker=" \o d.type
        IN  /\ n \in NamesOf(call[2]) => r.object_type = LastNamed(call[2], n).type
            /\ n \notin NamesOf(call[2]) => r.object_type = LastNamed(call[3], n).type
            /\ (OnBothSides(call, n)
                    /\ LastNamed(call[2], n).type # LastNamed(call[3], n).type)
               => /\ r.differences # <<>>
                  /\ r.differences[1]
                        = Mismatch(LastNamed(call[2], n), LastNamed(call[3], n))
                  /\ r.status = "DIFFERENT"

\* a function and an index of one name compared, next to a name of the
\* reference only
C12_Witness ==
    /\ pc = "once"
    /\ \E i \in DOMAIN first_run :
          /\ first_run[i].object_type = "FUNCTION"
          /\ first_run[i].differences # <<>>
          /\ first_run[i].differences[1] = "Type mismatch: source=FUNCTION, docker=INDEX"
    /\ \E i \in DOMAIN first_run :
          first_run[i].status = "MISSING" /\ first_run[i].object_type = "GRANT"

\* the return types the objects of the pool carry, as str() prints them
ReturnTypeTexts == {Str(obj.return_type) : obj \in ObjectPool}

ReturnNote(source_type, docker_type) ==
    "Return type differs: source=" \o source_type \o ", docker=" \o docker_type

ReturnNotes == {ReturnNote(a, b) : a \in ReturnTypeTexts, b \in ReturnTypeTexts}

C18_JoinKeyWithoutCondition ==
    \A call \in Calls : \A i \in DOMAIN call[1] :
        LET r == call[1][i]
            n == r.object_name
            s == LastNamed(call[2], n)
            d == LastNamed(call[3], n)
            Pairs(o) == {<<j.type, j.table>> : j \in Range(o.joins)}
            JoinNotes == {side \o " JOINs: " \o ToString(k) :
                             side \in {"Missing", "Extra"},
                             k \in 1..(Len(s.joins) + Len(d.joins))}
        IN  (OnBothSides(call, n) /\ Pairs(s) = Pairs(d))
            => Range(r.differences) \cap JoinNotes = {}

(***************************************************************************)
(* What the claims on the parser are stated over                           *)
(***************************************************************************)
ObjectTypes == {TypePrefixes[k][2] : k \in DOMAIN TypePrefixes}

\* whether the statement has a listed prefix and its name pattern matches
Resolved(statement) ==
    LET Named(statement_str, obj_type) ==
            ~IsNone(obj_type) /\ ~IsNone(_extract_object_name(statement_str, obj_type[1]))
        Typed(statement_str) == Named(statement_str, _get_object_type(statement_str))
    IN  Typed(Strip(statement))

\* whether the statement has a listed prefix and no name
Unnamed(statement) ==
    ~IsNone(_get_object_type(Strip(statement))) /\ ~Resolved(statement)

\* the objects the k-th statement of the file added, once it has been handled
EmittedBy(k) ==
    SubSeq(objects,
           Cardinality({j \in 1..(k - 1) : Resolved(parsed[j])}) + 1,
           Cardinality({j \in 1..k : Resolved(parsed[j])}))

\* C14: every object of the output has a non-empty name and a kind; a
\* classified statement whose name pattern does not match adds no object and
\* raises nothing, and the statements after it are parsed.
C14_NamedOrDropped ==
    /\ \A i \in DOMAIN objects :
          objects[i].name # "" /\ objects[i].type \in ObjectTypes
    /\ Len(objects) = Cardinality({k \in 1..position : Resolved(parsed[k])})
    /\ \A k \in DOMAIN parsed :
          (Unnamed(parsed[k]) /\ position = k - 1) => parser_pc # "raised"

\* an unnamed CREATE TABLE or GRANT handled, the statement after it emitted
C14_Witness ==
    /\ parser_pc = "returned"
    /\ position = 2
    /\ Unnamed(parsed[1])
    /\ Len(objects) = 1
    /\ objects[1].definition = Strip(parsed[2])

\* the prefixes as the classification is described
ClaimedPrefixes ==
    TypePrefixes \o << <<Spaced(<<"CREATE", "UNIQUE", "INDEX">>), "INDEX">> >>

ClaimedType(statement) ==
    LET Hits(statement_upper) ==
            {k \in DOMAIN ClaimedPrefixes :
                StartsWith(statement_upper, ClaimedPrefixes[k][1])}
        First(hits) == IF hits = {} THEN None ELSE Some(ClaimedPrefixes[Min(hits)][2])
    IN  First(Hits(UpperText(Strip(statement))))

\* C15: a statement handled by the parser is classified by its prefix, CREATE
\* UNIQUE INDEX as Index like CREATE INDEX, and a statement of no listed
\* prefix adds no object; so a named statement adds one object of its kind.
C15_ClassifiedByPrefix ==
    \A k \in 1..position :
        LET Kind(claimed) ==
                IF IsNone(claimed)
                   \/ IsNone(_extract_object_name(Strip(parsed[k]), claimed[1]))
                THEN EmittedBy(k) = <<>>
                ELSE Len(EmittedBy(k)) = 1 /\ EmittedBy(k)[1].type = claimed[1]
        IN  Kind(ClaimedType(parsed[k]))

\* CREATE OR REPLACE VIEW <name> AS SELECT <c1>, ..., <cn> FROM <t> WHERE <cond>
PlainView(name, columns, table, condition) ==
    <<"CREATE", " ", "OR", " ", "REPLACE", " ", "VIEW", " ", name, " ", "AS", " ",
      "SELECT", " ">>
    \o Flatten([k \in DOMAIN columns |->
                   IF k = 1 THEN columns[k] ELSE <<",", " ">> \o columns[k]])
    \o <<" ", "FROM", " ", table, " ", "WHERE", " ">> \o condition

\* plain column identifiers, as their items
PlainColumns == {<<"a">>, <<"b">>, <<"from", "_date">>}

PlainColumnLists == {<<c>> : c \in PlainColumns} \cup (PlainColumns \X PlainColumns)

\* C17: a statement of the form CREATE OR REPLACE VIEW <name> AS SELECT
\* <c1>, ..., <cn> FROM <t> WHERE <cond> adds exactly one object: a View of
\* that name with columns c1..cn in order and where_clause <cond>.
C17_PlainViewExtracted ==
    \A k \in 1..position : \A name \in {"v", "w"} : \A columns \in PlainColumnLists :
        parsed[k] = PlainView(name, columns, "t", <<"x", "=", "1">>)
        => /\ Len(EmittedBy(k)) = 1
           /\ EmittedBy(k)[1].type = "VIEW"
           /\ EmittedBy(k)[1].name = name
           /\ EmittedBy(k)[1].columns = [i \in DOMAIN columns |-> Concat(columns[i])]
           /\ EmittedBy(k)[1].where_clause = Some("x=1")

\* the newline characters of the statements before the k-th
RECURSIVE NewlinesBefore(_)
NewlinesBefore(k) ==
    IF k = 1 THEN 0 ELSE NewlinesBefore(k - 1) + CountNewlines(parsed[k - 1])

\* C19: the start line of an emitted object is one plus the newline characters
\* of the statements before its own, and its end line is its start line plus
\* the newline count of its own statement.
C19_LinesOfObject ==
    \A k \in 1..position : \A i \in DOMAIN EmittedBy(k) :
        /\ EmittedBy(k)[i].start_line = 1 + NewlinesBefore(k)
        /\ EmittedBy(k)[i].end_line
              = EmittedBy(k)[i].start_line + CountNewlines(Strip(parsed[k]))

\* the text with its AS keywords in upper case
UpperAs(text) == [k \in DOMAIN text |-> IF Upper(text[k]) = "AS" THEN "AS" ELSE text[k]]

\* text.split(' AS ')[-1]
AfterAs(text) ==
    SubSeq(text, Max({k \in DOMAIN text :
                         /\ text[k] = "AS"
                         /\ k > 1 /\ text[k - 1] = " "
                         /\ k < Len(text) /\ text[k + 1] = " "}) + 2, Len(text))

\* the column names as described: the alias of an item that has one
ClaimedColumns(select_clause) ==
    LET ColName(col) ==
            IF HasAs(UpperText(col)) THEN Strip(AfterAs(UpperAs(col)))
            ELSE AfterLastDot(StripWrapper(col))
        Kept(col_name) ==
            IF col_name # <<>> /\ UpperText(col_name) \notin {<<"*">>, <<"DISTINCT">>}
            THEN <<Concat(col_name)>> ELSE <<>>
        Columns(pieces) == Flatten([k \in 1..Len(pieces) |-> Kept(ColName(Strip(pieces[k])))])
    IN  Columns(SplitAt(select_clause, {","}))

\* C20: the columns of a View or MaterializedView are, item by item of its
\* SELECT list, the alias of an item written <expr> AS <alias>, else the final
\* identifier without function wrapper and qualifier; '*' and 'DISTINCT' items
\* give no column.
C20_AliasIsColumnName ==
    \A k \in 1..position : \A i \in DOMAIN EmittedBy(k) :
        LET Listed(select_match) ==
                ~IsNone(select_match)
                => EmittedBy(k)[i].columns = ClaimedColumns(select_match[1])
            Selected(select_statement) ==
                ~IsNone(select_statement)
                => Listed(SearchLazy(select_statement[1], <<"SELECT">>,
                                     << <<"FROM">> >>, FALSE))
        IN  EmittedBy(k)[i].type \in ViewTypes
            => Selected(SelectStatement(Strip(parsed[k])))

\* the objects a file contributes when a file that cannot be read counts for
\* zero objects
ObjectsOrNone(file) ==
    IF file.state # "ok" THEN <<>> ELSE parse_file(NewParser, file.statements).objects

\* whether one of the files of the pair cannot be read
HasUnreadable(pair) ==
    \/ pair.docker.state # "ok"
    \/ \E i \in DOMAIN pair.source : pair.source[i].state # "ok"

\* C16: a file of the batch that cannot be read contributes zero objects and
\* does not abort the batch: its pair is compared with what the other file
\* holds, and the pairs after it are processed.
C16_FailureConfined ==
    /\ batch_pc # "raised"
    /\ \A k \in 1..pair_index :
          LET pair == file_pairs[k]
              Objects(files) == Flatten([i \in DOMAIN files |-> ObjectsOrNone(files[i])])
          IN  HasUnreadable(pair)
              => NamesOf(Objects(pair.source)) \cup NamesOf(ObjectsOrNone(pair.docker))
                 = {pair_results[k][i].object_name : i \in DOMAIN pair_results[k]}

\* whether a single-line comment starts at item i: '--' first on its line
LineCommentAt(text, i) ==
    /\ text[i] = "--"
    /\ \A j \in 1..(i - 1) :
          text[j] \in WhiteSpace \/ \E n \in (j + 1)..(i - 1) : text[n] = "\n"

\* whether a block comment starts at item i
BlockCommentAt(text, i) ==
    text[i] = "/*" /\ \E j \in (i + 1)..Len(text) : text[j] = "*/"

\* the last item of the comment that starts at item i
CommentEnd(text, i) ==
    IF text[i] = "/*" THEN Min({j \in (i + 1)..Len(text) : text[j] = "*/"})
    ELSE Min({j \in i..Len(text) : j = Len(text) \/ text[j + 1] = "\n"})

\* the comments of the text from item 'from' on, in the order of the text
RECURSIVE CommentsInOrder(_, _)
CommentsInOrder(text, from) ==
    LET starts == {i \in from..Len(text) :
                      LineCommentAt(text, i) \/ BlockCommentAt(text, i)}
        Comment(i, j) ==
            <<Concat(Strip(SubSeq(text, i, j)))>> \o CommentsInOrder(text, j + 1)
    IN  IF starts = {} THEN <<>>
        ELSE Comment(Min(starts), CommentEnd(text, Min(starts)))

\* C21: the comments of an emitted object are the single-line and block
\* comments of its statement in the order of the statement text, duplicates
\* kept; a block comment before a single-line comment comes before it.
C21_CommentsInTextOrder ==
    \A k \in 1..position : \A i \in DOMAIN EmittedBy(k) :
        EmittedBy(k)[i].comments = CommentsInOrder(Strip(parsed[k]), 1)

(***************************************************************************)
(* The order of the passes and the clause pass                             *)
(***************************************************************************)
\* the entries the k-th pass of _compare_objects can append for the pair
PassEntries(k, s, d) ==
    CASE k = 1 -> {"Type mismatch: source=" \o s.type \o ", docker=" \o d.type}
      [] k = 2 -> Range(_compare_columns(s.columns, d.columns, hash_seed).differences)
      [] k = 3 -> Range(_compare_ctes(s.ctes, d.ctes, hash_seed).differences)
      [] k = 4 -> Range(_compare_joins(s.joins, d.joins, hash_seed).differences)
      [] k = 5 -> Range(_compare_clauses(s.where_clause, d.where_clause,
                                         "WHERE").differences)
      [] k = 6 -> Range(_compare_clauses(s.group_by, d.group_by, "GROUP BY").differences)
      [] k = 7 -> Range(_compare_clauses(s.order_by, d.order_by, "ORDER BY").differences)
      [] k = 8 -> Range(_compare_comments(s.comments, d.comments).differences)
      [] k = 9 -> {"Function parameters differ"} \cup ReturnNotes

\* the passes an entry can come from
PassesOf(entry, s, d) == {k \in 1..9 : entry \in PassEntries(k, s, d)}

\* C22: the entries of differences are in the order of the passes type,
\* columns, CTEs, joins, WHERE, GROUP BY, ORDER BY, comments, function: every
\* entry comes from a pass, and no entry of a later pass precedes an entry of
\* an earlier pass.
C22_PassOrder ==
    \A call \in Calls : \A i \in DOMAIN call[1] :
        LET Ordered(entries, s, d) ==
                /\ \A a \in DOMAIN entries : PassesOf(entries[a], s, d) # {}
                /\ \A a \in DOMAIN entries : \A b \in DOMAIN entries :
                      a < b => Min(PassesOf(entries[a], s, d))
                               <= Min(PassesOf(entries[b], s, d))
        IN  OnBothSides(call, call[1][i].object_name)
            => Ordered(call[1][i].differences,
                       LastNamed(call[2], call[1][i].object_name),
                       LastNamed(call[3], call[1][i].object_name))

\* a compared pair whose differences come from five passes or more
C22_Witness ==
    /\ pc = "once"
    /\ \E i \in DOMAIN first_run :
          LET Passes(entries, s, d) ==
                  {Min(PassesOf(entries[a], s, d)) : a \in DOMAIN entries}
          IN  /\ first_run[i].object_name
                    \in NamesOf(source_objects) \cap NamesOf(docker_objects)
              /\ Cardinality(Passes(first_run[i].differences,
                                    LastNamed(source_objects, first_run[i].object_name),
                                    LastNamed(docker_objects, first_run[i].object_name)))
                 >= 5

ClauseTypes == {"WHERE", "GROUP BY", "ORDER BY"}

\* the clause of that type of an object, as Optional
ClauseOf(obj, clause_type) ==
    CASE clause_type = "WHERE" -> obj.where_clause
      [] clause_type = "GROUP BY" -> obj.group_by
      [] clause_type = "ORDER BY" -> obj.order_by

\* the three messages of the clause pass for a clause type
AbsentOnReference(clause_type) == "Missing " \o clause_type \o " clause in Docker"

AbsentOnCandidate(clause_type) == "Missing " \o clause_type \o " clause in source"

BothDiffer(clause_type) == clause_type \o " clause differs"

ClauseNotes(clause_type) ==
    {AbsentOnReference(clause_type), AbsentOnCandidate(clause_type),
     BothDiffer(clause_type)}

IsClauseNote(entry) == \E clause_type \in ClauseTypes : entry \in ClauseNotes(clause_type)

\* C23: for WHERE, GROUP BY and ORDER BY the clause pass appends nothing when
\* the two clause values are equal (both absent too) and exactly one entry when
\* they differ: one message when the reference has none, another when the
\* candidate has none, a third when both have one, the three distinct.
C23_ClausePass ==
    \A call \in Calls : \A i \in DOMAIN call[1] : \A clause_type \in ClauseTypes :
        LET Passed(entries, sv, dv) ==
                /\ Cardinality(ClauseNotes(clause_type)) = 3
                /\ entries = IF sv = dv THEN <<>>
                             ELSE IF IsNone(sv) THEN <<AbsentOnReference(clause_type)>>
                             ELSE IF IsNone(dv) THEN <<AbsentOnCandidate(clause_type)>>
                             ELSE <<BothDiffer(clause_type)>>
            InNotes(entry) == entry \in ClauseNotes(clause_type)
        IN  OnBothSides(call, call[1][i].object_name)
            => Passed(SelectSeq(call[1][i].differences, InNotes),
                      ClauseOf(LastNamed(call[2], call[1][i].object_name), clause_type),
                      ClauseOf(LastNamed(call[3], call[1][i].object_name), clause_type))

\* one compared pair with the three cases: a clause the reference lacks, one
\* the candidate lacks, one that differs
C23_Witness ==
    /\ pc = "once"
    /\ \E i \in DOMAIN first_run :
          /\ first_run[i].object_name
                \in NamesOf(source_objects) \cap NamesOf(docker_objects)
          /\ \E a \in ClauseTypes : AbsentOnReference(a) \in Range(first_run[i].differences)
          /\ \E b \in ClauseTypes : AbsentOnCandidate(b) \in Range(first_run[i].differences)
          /\ \E c \in ClauseTypes : BothDiffer(c) \in Range(first_run[i].differences)

\* C25: a clause entry names the side that lacks the clause: "Missing <clause>
\* clause in Docker" only when the candidate object has no such clause (and the
\* reference has one), "Missing <clause> clause in source" only when the
\* reference object has none (and the candidate has one).
C25_NamesLackingSide ==
    \A call \in Calls : \A i \in DOMAIN call[1] : \A clause_type \in ClauseTypes :
        LET Named(entries, sv, dv) ==
                /\ ("Missing " \o clause_type \o " clause in Docker") \in entries
                      => IsNone(dv) /\ ~IsNone(sv)
                /\ ("Missing " \o clause_type \o " clause in source") \in entries
                      => IsNone(sv) /\ ~IsNone(dv)
        IN  OnBothSides(call, call[1][i].object_name)
            => Named(Range(call[1][i].differences),
                     ClauseOf(LastNamed(call[2], call[1][i].object_name), clause_type),
                     ClauseOf(LastNamed(call[3], call[1][i].object_name), clause_type))

\* C26: for a name of both sides, a result that lists missing components has a
\* completeness below 100.
C26_MissingLowersCompleteness ==
    \A call \in Calls : \A i \in DOMAIN call[1] :
        (OnBothSides(call, call[1][i].object_name)
         /\ call[1][i].missing_components # <<>>)
        => call[1][i].completeness_percentage[1]
           < 100 * call[1][i].completeness_percentage[2]

\* the result of that name in a run
ResultNamed(run, name) == run[Min({i \in DOMAIN run : run[i].object_name = name})]

\* C27: for a name of both sides, comparing the other way round gives the same
\* status: MATCH stays MATCH and DIFFERENT stays DIFFERENT.
C27_SwapKeepsStatus ==
    pc = "swapped" =>
        \A name \in NamesOf(source_objects) \cap NamesOf(docker_objects) :
            /\ ResultNamed(first_run, name).status \in {"MATCH", "DIFFERENT"}
            /\ ResultNamed(swapped_run, name).status
                  = ResultNamed(first_run, name).status

\* a Function compared with an object of another kind of the same name, both
\* ways round: the function pass runs one way only
C27_Witness ==
    /\ pc = "swapped"
    /\ \E name \in NamesOf(source_objects) \cap NamesOf(docker_objects) :
          /\ LastNamed(source_objects, name).type = "FUNCTION"
          /\ LastNamed(docker_objects, name).type # "FUNCTION"
          /\ "Function parameters differ"
                \in Range(ResultNamed(first_run, name).differences)
          /\ "Function parameters differ"
                \notin Range(ResultNamed(swapped_run, name).differences)
          /\ ResultNamed(swapped_run, name).status = "DIFFERENT"


====
